---- MODULE Spec2Model ----
(***************************************************************************)
(* Model of the CLI configuration upgrader (package cliconfigupgrade):     *)
(* UpgradeOldHCLConfig and the functions it drives, over legacy (HCL 1.0)  *)
(* syntax trees with source positions and comment groups.                  *)
(***************************************************************************)
EXTENDS Integers, Sequences, FiniteSets, TLC

(***************************************************************************)
(* Bounds of the explored input documents.                                 *)
(***************************************************************************)
\* items in the root list of the multi-item documents
MaxItems == 2
\* items in an object written as a value
MaxObjItems == 2
\* levels of nested blocks in the chain documents
MaxDepth == 3
\* ad hoc comment groups in front of one item
MaxAdhoc == 1

(***************************************************************************)
(* Legacy tokens, positions and comments (hcl/token, hcl/ast).             *)
(***************************************************************************)
\* token.Pos{Line, Offset}
Pos(line, offset) == [Line |-> line, Offset |-> offset]

\* token.Pos.Before: p is before u
Before(p, u) == u.Offset > p.Offset \/ u.Line > p.Line

\* token.Pos.After: p is after u
After(p, u) == p.Offset > u.Offset \/ p.Line > u.Line

\* a nil *ast.CommentGroup
NoGroup == [List |-> << >>]

\* ast.CommentGroup.Pos(): the start of its first comment
GroupPos(g) == g.List[1].Start

\* a comment group of one comment; the text of a comment names the comment
OneComment(p) == [List |-> << [Start |-> p, Text |-> p.Offset] >>]

(***************************************************************************)
(* Shapes of legacy documents, before positions are assigned.  A shape is  *)
(* a document as written: the layout below gives every node the position   *)
(* the legacy parser records for it.                                       *)
(***************************************************************************)
LitShape(type, text) == [k |-> "lit", type |-> type, text |-> text]
ListShape(elems) == [k |-> "list", elems |-> elems]

\* a literal on a line of its own inside a list, followed by a comma, with a
\* comment on the line above it (lead) and one after the comma (line)
LineLitShape(type, text, lead, line) ==
    [k |-> "clit", type |-> type, text |-> text, lead |-> lead, line |-> line]
ObjShape(items, tail) == [k |-> "obj", items |-> items, tail |-> tail]

\* name = value
AttrShape(name, val) ==
    [keys |-> <<name>>, assign |-> TRUE, val |-> val,
     adhoc |-> 0, lead |-> FALSE, line |-> FALSE, gap |-> FALSE]

\* name "label"... { body }
BlockShape(keys, items) ==
    [keys |-> keys, assign |-> FALSE, val |-> ObjShape(items, 0),
     adhoc |-> 0, lead |-> FALSE, line |-> FALSE, gap |-> FALSE]

\* the same item with comments and blank lines around it
Decorate(item, d) ==
    [item EXCEPT !.adhoc = d.adhoc, !.lead = d.lead, !.line = d.line,
                 !.gap = d.gap]

SeqsUpTo(S, n) == UNION {[1..k -> S] : k \in 0..n}

(***************************************************************************)
(* Layout: the positions and the comment table the legacy parser records.  *)
(* Every token takes one offset; cur is the position of the next token.    *)
(***************************************************************************)
Advance(cur) == Pos(cur.Line, cur.Offset + 1)
NewLine(cur) == Pos(cur.Line + 1, cur.Offset + 1)

RECURSIVE LayVal(_, _)
RECURSIVE LayItem(_, _)
RECURSIVE LayItems(_, _, _)
RECURSIVE LayElems(_, _, _)
RECURSIVE LayAdhoc(_, _, _)

\* n ad hoc comment groups, each on a line of its own followed by a blank line
LayAdhoc(n, cur, acc) ==
    IF n = 0 THEN [cur |-> cur, comments |-> acc]
    ELSE LayAdhoc(n - 1, NewLine(NewLine(Advance(cur))),
                  Append(acc, OneComment(cur)))

LayElems(elems, cur, acc) ==
    IF elems = << >> THEN [nodes |-> acc, cur |-> cur, comments |-> << >>]
    ELSE LET r    == LayVal(Head(elems), cur)
             rest == LayElems(Tail(elems), r.cur, Append(acc, r.node))
         IN  [rest EXCEPT !.comments = r.comments \o @]

LayVal(sh, cur) ==
    CASE sh.k = "lit" ->
           [node |-> [node |-> "Literal", type |-> sh.type, text |-> sh.text,
                      pos |-> cur, LeadComment |-> NoGroup,
                      LineComment |-> NoGroup],
            cur |-> Advance(cur), comments |-> << >>]
      [] sh.k = "clit" ->
           LET c0   == NewLine(cur)
               lead == IF sh.lead THEN OneComment(c0) ELSE NoGroup
               c1   == IF sh.lead THEN NewLine(Advance(c0)) ELSE c0
               c2   == Advance(Advance(c1))
               line == IF sh.line THEN OneComment(c2) ELSE NoGroup
               c3   == IF sh.line THEN Advance(c2) ELSE c2
           IN  [node |-> [node |-> "Literal", type |-> sh.type,
                          text |-> sh.text, pos |-> c1,
                          LeadComment |-> lead, LineComment |-> line],
                cur |-> NewLine(c3),
                comments |-> (IF sh.lead THEN <<lead>> ELSE << >>)
                             \o (IF sh.line THEN <<line>> ELSE << >>)]
      [] sh.k = "list" ->
           LET r == LayElems(sh.elems, Advance(cur), << >>)
           IN  [node |-> [node |-> "List", List |-> r.nodes, pos |-> cur,
                          Rbrack |-> r.cur],
                cur |-> Advance(r.cur), comments |-> r.comments]
      [] sh.k = "obj" ->
           IF sh.items = << >> /\ sh.tail = 0
           THEN [node |-> [node |-> "Object", Items |-> << >>, pos |-> cur,
                           Rbrace |-> Advance(cur)],
                 cur |-> Advance(Advance(cur)), comments |-> << >>]
           ELSE LET r == LayItems(sh.items, NewLine(Advance(cur)), << >>)
                    t == LayAdhoc(sh.tail, r.cur, r.comments)
                IN  [node |-> [node |-> "Object", Items |-> r.items,
                               pos |-> cur, Rbrace |-> t.cur],
                     cur |-> Advance(t.cur), comments |-> t.comments]

LayItem(sh, cur) ==
    LET a    == LayAdhoc(sh.adhoc, cur, << >>)
        c1   == IF sh.gap THEN NewLine(a.cur) ELSE a.cur
        lead == IF sh.lead THEN OneComment(c1) ELSE NoGroup
        c2   == IF sh.lead THEN NewLine(Advance(c1)) ELSE c1
        c3   == Pos(c2.Line, c2.Offset + Len(sh.keys))
        asg  == IF sh.assign THEN c3 ELSE Pos(0, 0)
        c4   == IF sh.assign THEN Advance(c3) ELSE c3
        v    == LayVal(sh.val, c4)
        line == IF sh.line THEN OneComment(v.cur) ELSE NoGroup
        c5   == IF sh.line THEN Advance(v.cur) ELSE v.cur
    IN  [item |-> [node |-> "Item", Keys |-> sh.keys, pos |-> c2,
                   Assign |-> asg, Val |-> v.node,
                   LeadComment |-> lead, LineComment |-> line],
         cur |-> NewLine(c5),
         comments |-> a.comments
                      \o (IF sh.lead THEN <<lead>> ELSE << >>)
                      \o v.comments
                      \o (IF sh.line THEN <<line>> ELSE << >>)]

LayItems(shapes, cur, acc) ==
    IF shapes = << >> THEN [items |-> << >>, cur |-> cur, comments |-> acc]
    ELSE LET r    == LayItem(Head(shapes), cur)
             rest == LayItems(Tail(shapes), r.cur, acc \o r.comments)
         IN  [items |-> <<r.item>> \o rest.items, cur |-> rest.cur,
              comments |-> rest.comments]

\* hcl1parser.Parse on a well-formed document: the ast.File
ParsedFile(doc) ==
    LET r == LayItems(doc.items, Pos(1, 1), << >>)
        t == LayAdhoc(doc.tail, r.cur, r.comments)
    IN  [err |-> FALSE, Node |-> r.items, Comments |-> t.comments]


(***************************************************************************)
(* The input documents explored.                                           *)
(***************************************************************************)
Foo == LitShape("string", "foo")
Bar == LitShape("string", "bar")
Interp == LitShape("string", "${FOO}")
Url == LitShape("string", "https://example.com/")
EmptyObj == ObjShape(<< >>, 0)

Lits == {Foo, Interp, LitShape("bool", "true"), LitShape("float", "1.5")}

\* items written inside an object value
ObjItems ==
    { AttrShape("k", Foo), AttrShape("k", Interp),
      AttrShape("modules.v1", Url),
      BlockShape(<<"k", "l">>, <<AttrShape("j", Foo)>>) }

ObjConsts == {ObjShape(items, 0) : items \in SeqsUpTo(ObjItems, MaxObjItems)}

Lists ==
    { ListShape(<< >>), ListShape(<<Foo, LitShape("bool", "true")>>),
      ListShape(<<ObjShape(<<AttrShape("k", Foo)>>, 0)>>) }

ConstShapes == Lits \cup Lists \cup ObjConsts

RootNames ==
    {"providers", "provisioners", "plugin_cache_dir", "disable_checkpoint",
     "services"}

Doc(items, tail) == [err |-> FALSE, items |-> items, tail |-> tail]

\* one root argument of any name and value
SingleDocs ==
    {Doc(<<AttrShape(n, v)>>, 0) : n \in RootNames, v \in ConstShapes}

\* one root block holding one argument of any value
HostDocs ==
    {Doc(<<BlockShape(<<"host", "example.com">>, <<AttrShape(n, v)>>)>>, 0) :
        n \in {"providers", "services"}, v \in ConstShapes}

BlockKeys ==
    {<<"host">>, <<"providers">>, <<"host", "example.com">>,
     <<"credentials", "a", "b">>}

\* what the innermost block of a chain holds
LeafBodies ==
    { << >>, <<AttrShape("services", ObjShape(<<AttrShape("k", Foo)>>, 0))>>,
      <<AttrShape("providers", EmptyObj)>>, <<AttrShape("token", Foo)>> }

RECURSIVE Chains(_)
\* the bodies nested d blocks deep
Chains(d) ==
    IF d = 0 THEN LeafBodies
    ELSE {<<BlockShape(keys, body)>> : keys \in BlockKeys, body \in Chains(d - 1)}

ChainDocs == {Doc(items, 0) : items \in UNION {Chains(d) : d \in 1..MaxDepth}}

\* root lists of plain items, some defining one name more than once
PlainItems ==
    { AttrShape("a", ObjShape(<<AttrShape("k", Foo)>>, 0)),
      AttrShape("a", ObjShape(<<AttrShape("k", Bar)>>, 0)),
      AttrShape("b", EmptyObj),
      AttrShape("a", Foo), AttrShape("a", Bar),
      BlockShape(<<"a">>, << >>),
      BlockShape(<<"host", "example.com">>, <<AttrShape("a", EmptyObj)>>) }

MultiDocs == {Doc(items, 0) : items \in SeqsUpTo(PlainItems, MaxItems)}

\* what a commented document ends with
LastItems == {AttrShape("c", EmptyObj), AttrShape("c", Foo),
              AttrShape("providers", Foo)}

\* an argument, a block of one argument and a last item, with ad hoc
\* comments in front of each item, inside the first argument's value, at the
\* end of the block and at the end of the file; own: the items carry lead
\* and line comments of their own
CommentedDoc(ad, own, last) ==
    Doc(<< Decorate(AttrShape("a", ObjShape(<< >>, ad[7])),
                    [adhoc |-> ad[1], lead |-> own, line |-> FALSE,
                     gap |-> FALSE]),
           [keys |-> <<"host", "example.com">>, assign |-> FALSE,
            val |-> ObjShape(
                      <<Decorate(AttrShape("services", EmptyObj),
                                 [adhoc |-> ad[3], lead |-> FALSE,
                                  line |-> own, gap |-> FALSE])>>,
                      ad[4]),
            adhoc |-> ad[2], lead |-> own, line |-> own, gap |-> FALSE],
           Decorate(last, [adhoc |-> ad[5], lead |-> FALSE, line |-> FALSE,
                           gap |-> own]) >>,
        ad[6])

CommentDocs ==
    {CommentedDoc(ad, own, last) :
        ad \in [1..7 -> 0..MaxAdhoc], own \in BOOLEAN, last \in LastItems}

\* what a list holds: literals of every type, literals on lines of their own
\* with comments attached, and nested lists
ListElems ==
    { Foo, LitShape("number", "1"), LitShape("float", "1.5"),
      LitShape("bool", "true"), ListShape(<<Foo>>),
      LineLitShape("string", "bar", TRUE, TRUE),
      LineLitShape("string", "bar", TRUE, FALSE),
      LineLitShape("string", "bar", FALSE, TRUE) }

ListValues == {ListShape(elems) : elems \in SeqsUpTo(ListElems, MaxItems)}

NestedValues == ListValues \cup Lits \cup {LitShape("number", "1")}

\* an argument whose object value holds one argument of any constant value,
\* followed by a second argument
ValueDocs ==
    {Doc(<<AttrShape("a", ObjShape(<<AttrShape("k", v)>>, 0)),
           AttrShape("b", EmptyObj)>>, tail) :
        v \in NestedValues, tail \in 0..MaxAdhoc}

\* an argument, a block of two arguments and a last argument, with blank
\* lines between them or not, line comments or not, and values of one line
\* or of several
GapDocs ==
    {Doc(<< Decorate(AttrShape("a", v),
                     [adhoc |-> 0, lead |-> FALSE, line |-> d[1],
                      gap |-> FALSE]),
            [keys |-> <<"host", "example.com">>, assign |-> FALSE,
             val |-> ObjShape(
                       << AttrShape("j", v),
                          Decorate(AttrShape("m", EmptyObj),
                                   [adhoc |-> 0, lead |-> FALSE,
                                    line |-> FALSE, gap |-> d[2]]) >>, 0),
             adhoc |-> 0, lead |-> d[3], line |-> d[4], gap |-> d[5]],
            Decorate(AttrShape("c", EmptyObj),
                     [adhoc |-> 0, lead |-> FALSE, line |-> FALSE,
                      gap |-> d[6]]) >>, 0) :
        v \in {EmptyObj, ObjShape(<<AttrShape("k", Foo)>>, 0)},
        d \in [1..6 -> BOOLEAN]}

\* bytes the legacy parser rejects
BrokenDocs == {[err |-> TRUE, bytes |-> n] : n \in 1..2}

Inputs ==
    BrokenDocs \cup SingleDocs \cup HostDocs \cup ChainDocs \cup MultiDocs
      \cup CommentDocs \cup ValueDocs \cup GapDocs

(***************************************************************************)
(* Comment collector and queue (comments.go).                              *)
(***************************************************************************)
RECURSIVE OwnedIn(_)
RECURSIVE OwnedInAll(_)

\* the positions of the comments of a group (nil: none)
CommentStarts(g) == {g.List[j].Start : j \in 1..Len(g.List)}

OwnedInAll(nodes) ==
    IF nodes = << >> THEN {}
    ELSE OwnedIn(Head(nodes)) \cup OwnedInAll(Tail(nodes))

\* the positions the walk of collectAdhocComments deletes below one node
OwnedIn(n) ==
    CASE n.node = "Literal" ->
           CommentStarts(n.LeadComment) \cup CommentStarts(n.LineComment)
      [] n.node = "Item" ->
           CommentStarts(n.LeadComment) \cup CommentStarts(n.LineComment)
             \cup OwnedIn(n.Val)
      [] n.node = "List" -> OwnedInAll(n.List)
      [] n.node = "Object" -> OwnedInAll(n.Items)

RECURSIVE SortByPos(_)
\* sort.Slice with Pos.Before as the order
SortByPos(S) ==
    IF S = {} THEN << >>
    ELSE LET first == CHOOSE g \in S :
                        \A h \in S \ {g} : Before(GroupPos(g), GroupPos(h))
         IN  <<first>> \o SortByPos(S \ {first})

\* collectAdhocComments without the walk that deletes the owned comments
collectEveryComment(f) ==
    SortByPos({f.Comments[j] : j \in 1..Len(f.Comments)})

collectAdhocComments(f) ==
    LET all   == {f.Comments[j] : j \in 1..Len(f.Comments)}
        owned == OwnedInAll(f.Node)
    IN  SortByPos({g \in all : GroupPos(g) \notin owned})

RECURSIVE DeletedInAll(_)
RECURSIVE DeletedIn(_)
DeletedInAll(nodes) ==
    IF nodes = << >> THEN << >>
    ELSE DeletedIn(Head(nodes)) \o DeletedInAll(Tail(nodes))

\* the keys the walk of collectAdhocComments deletes, in the order of the walk
DeletedIn(n) ==
    LET own == [j \in 1..Len(n.LeadComment.List) |-> n.LeadComment.List[j].Start]
                 \o [j \in 1..Len(n.LineComment.List) |->
                       n.LineComment.List[j].Start]
    IN  CASE n.node = "Literal" -> own
          [] n.node = "Item" -> own \o DeletedIn(n.Val)
          [] n.node = "List" -> DeletedInAll(n.List)
          [] n.node = "Object" -> DeletedInAll(n.Items)

RECURSIVE DeleteKeys(_, _)
\* delete(comments, key) for each key in turn, on the map keyed by position
DeleteKeys(groups, keys) ==
    IF keys = << >> THEN groups
    ELSE DeleteKeys({g \in groups : GroupPos(g) # Head(keys)}, Tail(keys))

\* collectAdhocComments with the deletions made in a given order
collectInOrder(f, keys) ==
    SortByPos(DeleteKeys({f.Comments[j] : j \in 1..Len(f.Comments)}, keys))

RECURSIVE ScanStrict(_, _, _)
\* the loop stopping at the first group that is not before the position
ScanStrict(q, toPos, i) ==
    IF i < Len(q) /\ Before(GroupPos(q[i + 1]), toPos)
    THEN ScanStrict(q, toPos, i + 1)
    ELSE i

\* TakeBeforePos leaving a group at the very position queued
TakeBeforePosStrict(q, pos) ==
    LET i == ScanStrict(q, pos, 0)
    IN  [ret  |-> SubSeq(q, 1, i), q |-> SubSeq(q, i + 1, Len(q))]

RECURSIVE ScanQueue(_, _, _)
\* the loop of TakeBeforePos: how many groups are taken
ScanQueue(q, toPos, i) ==
    IF i < Len(q) /\ ~After(GroupPos(q[i + 1]), toPos)
    THEN ScanQueue(q, toPos, i + 1)
    ELSE i

\* TakeBeforePos advancing the queue one group too far
TakeBeforePosSkips(q, pos) ==
    LET i == ScanQueue(q, pos, 0)
    IN  [ret  |-> SubSeq(q, 1, i),
         q |-> IF i = 0 THEN q ELSE SubSeq(q, i + 2, Len(q))]

\* TakeBeforePos without the assignment that advances the queue
TakeBeforePosKeepsQueue(q, pos) ==
    [ret |-> SubSeq(q, 1, ScanQueue(q, pos, 0)), q |-> q]

\* commentQueue.TakeBeforePos: the groups returned and the queue left
TakeBeforePos(q, pos) ==
    LET i == ScanQueue(q, pos, 0)
    IN  [ret  |-> SubSeq(q, 1, i), q |-> SubSeq(q, i + 1, Len(q))]

\* commentQueue.TakeBefore
TakeBefore(q, node) == TakeBeforePos(q, node.pos)

\* the end of a node taken to be its start
hcl1NodeEndPosStart(n) == n.pos

\* hcl1NodeEndPos
hcl1NodeEndPos(n) ==
    LET ValEnd(v) == CASE v.node = "List" -> v.Rbrack
                       [] v.node = "Object" -> v.Rbrace
                       [] OTHER -> v.pos
    IN  IF n.node = "Item"
        THEN IF Len(n.LineComment.List) > 0
             THEN n.LineComment.List[Len(n.LineComment.List)].Start
             ELSE ValEnd(n.Val)
        ELSE ValEnd(n)

(***************************************************************************)
(* The new-syntax body (hclwrite.Body): a sequence of attributes, blocks,   *)
(* runs of raw tokens and newlines.                                         *)
(***************************************************************************)
CommentToken(c) == [Type |-> "TokenComment", Bytes |-> c.Text]
NewlineToken == [Type |-> "TokenNewline"]

RECURSIVE CommentTokens(_)
CommentTokens(list) ==
    IF list = << >> THEN << >>
    ELSE <<CommentToken(Head(list)), NewlineToken>> \o CommentTokens(Tail(list))

\* writeComments on one body
writeComments(body, group) ==
    IF group = NoGroup THEN body
    ELSE Append(body, [t |-> "tokens", toks |-> CommentTokens(group.List)])

\* writeNewline on one body
writeNewline(body) == Append(body, [t |-> "newline"])

HasAttribute(body, name) ==
    \E j \in 1..Len(body) : body[j].t = "attr" /\ body[j].name = name

\* Body.SetAttributeValue: one attribute per name, the last value kept
SetAttributeValue(body, name, val) ==
    IF HasAttribute(body, name)
    THEN [j \in 1..Len(body) |->
            IF body[j].t = "attr" /\ body[j].name = name
            THEN [body[j] EXCEPT !.val = val]
            ELSE body[j]]
    ELSE Append(body, [t |-> "attr", name |-> name, val |-> val])

\* Body.AppendNewBlock
AppendNewBlock(body, name, labels) ==
    Append(body, [t |-> "block", name |-> name, labels |-> labels,
                  body |-> << >>])

RECURSIVE BodyAt(_, _)
\* the body a path of block indices leads to
BodyAt(body, path) ==
    IF path = << >> THEN body
    ELSE BodyAt(body[Head(path)].body, Tail(path))

RECURSIVE ReplaceAt(_, _, _)
\* the document with the body at a path replaced
ReplaceAt(body, path, new) ==
    IF path = << >> THEN new
    ELSE [body EXCEPT ![Head(path)].body = ReplaceAt(@, Tail(path), new)]

RECURSIVE Bytes(_)
\* File.Bytes: the tokens of a body in the order they were given
Bytes(body) ==
    IF body = << >> THEN << >>
    ELSE LET n == Head(body)
             toks == CASE n.t = "attr" ->
                            <<[Type |-> "Attribute", name |-> n.name,
                               val |-> n.val], NewlineToken>>
                       [] n.t = "block" ->
                            <<[Type |-> "OBrace", name |-> n.name,
                               labels |-> n.labels]>>
                            \o Bytes(n.body) \o <<[Type |-> "CBrace"]>>
                       [] n.t = "tokens" -> n.toks
                       [] n.t = "newline" -> <<NewlineToken>>
         IN  toks \o Bytes(Tail(body))

(***************************************************************************)
(* Constant expression converter.                                          *)
(***************************************************************************)
\* the Go type of Token.Value() for a literal token
TokenValueType(type) ==
    CASE type = "string" -> "string"
      [] type = "heredoc" -> "string"
      [] type = "number" -> "int64"
      [] type = "float" -> "float64"
      [] type = "bool" -> "bool"

Ok(v) == [ok |-> TRUE, val |-> v]
Panic(msg) == [ok |-> FALSE, msg |-> msg]

\* cty values
StringVal(v) == [ty |-> "string", s |-> v]
NumberIntVal(v) == [ty |-> "number", n |-> v, int |-> TRUE]
NumberFloatVal(v) == [ty |-> "number", n |-> v, int |-> FALSE]
BoolVal(v) == [ty |-> "bool", b |-> v]
TupleVal(vals) == [ty |-> "tuple", elems |-> vals]
ObjectVal(vals) == [ty |-> "object", attrs |-> vals]

\* item.Keys[0].Token.Value().(string)
KeyName(item) == item.Keys[1]

RECURSIVE upgradeExpressionConstant(_)
RECURSIVE ConvertList(_, _)
RECURSIVE ConvertItems(_, _)

\* the loop over n.List: a tuple of the converted elements
ConvertList(nodes, acc) ==
    IF nodes = << >> THEN Ok(acc)
    ELSE LET r == upgradeExpressionConstant(Head(nodes))
         IN  IF r.ok THEN ConvertList(Tail(nodes), Append(acc, r.val)) ELSE r

\* a map that keeps the value a name already has
SetValKeepsFirst(vals, name, v) ==
    [k \in DOMAIN vals \cup {name} |-> IF k \in DOMAIN vals THEN vals[k] ELSE v]

\* vals[name] = v on a Go map: the value of a name already present is replaced
SetVal(vals, name, v) ==
    [k \in DOMAIN vals \cup {name} |-> IF k = name THEN v ELSE vals[k]]

\* the loop over n.List.Items: vals[name] = converted value
ConvertItems(items, vals) ==
    IF items = << >> THEN Ok(vals)
    ELSE LET item == Head(items)
             r    == upgradeExpressionConstant(item.Val)
             name == KeyName(item)
         IN  IF r.ok
             THEN ConvertItems(Tail(items), SetVal(vals, name, r.val))
             ELSE r

upgradeExpressionConstant(from) ==
    CASE from.node = "Literal" ->
           LET gotype == TokenValueType(from.type)
           IN  CASE gotype = "string" -> Ok(StringVal(from.text))
                 [] gotype = "int" -> Ok(NumberIntVal(from.text))
                 [] gotype = "float64" -> Ok(NumberFloatVal(from.text))
                 [] gotype = "bool" -> Ok(BoolVal(from.text))
                 [] OTHER -> Panic("cannot derive expression from value")
      [] from.node = "List" ->
           LET r == ConvertList(from.List, << >>)
           IN  IF r.ok THEN Ok(TupleVal(r.val)) ELSE r
      [] from.node = "Object" ->
           LET r == ConvertItems(from.Items, << >>)
           IN  IF r.ok THEN Ok(ObjectVal(r.val)) ELSE r
      [] OTHER -> Panic("cannot derive expression from node")

(***************************************************************************)
(* The CLI configuration loader (package cliconfig).  Strings the loader   *)
(* takes apart are sequences of characters; the environment is a sequence  *)
(* of entries of the form NAME=value.                                      *)
(***************************************************************************)
MaxFiles == 2

\* the characters of the names ${...} and $... refer to
NameChars ==
    {"T", "F", "U", "_", "P", "L", "G", "I", "N", "C", "A", "H", "E", "D", "R"}

pluginCacheDirEnvVar ==
    <<"T", "F", "_", "P", "L", "U", "G", "I", "N", "_",
      "C", "A", "C", "H", "E", "_", "D", "I", "R">>

IsPrefix(p, s) == Len(p) <= Len(s) /\ SubSeq(s, 1, Len(p)) = p

\* strings.HasSuffix
IsSuffix(p, s) ==
    Len(p) <= Len(s) /\ SubSeq(s, Len(s) - Len(p) + 1, Len(s)) = p

RECURSIVE getEnv(_, _)
\* getEnv: the value of the first entry that starts with name and "="
getEnv(env, name) ==
    IF env = << >> THEN << >>
    ELSE LET v == Head(env)
         IN  IF Len(v) <= Len(name) THEN getEnv(Tail(env), name)
             ELSE IF IsPrefix(name, v) /\ v[Len(name) + 1] = "="
                  THEN SubSeq(v, Len(name) + 2, Len(v))
                  ELSE getEnv(Tail(env), name)

\* strings.IndexByte(e, '='): 0 when there is none
IndexOfEq(e) ==
    IF \E j \in 1..Len(e) : e[j] = "="
    THEN CHOOSE j \in 1..Len(e) :
            e[j] = "=" /\ \A l \in 1..(j - 1) : e[l] # "="
    ELSE 0

RECURSIVE environForHCL(_)
\* environForHCL: a map from every name before an "=" to the value after
\* it; a later entry of the same name replaces an earlier one
environForHCL(env) ==
    IF env = << >> THEN << >>
    ELSE LET e    == env[Len(env)]
             rest == environForHCL(SubSeq(env, 1, Len(env) - 1))
             eq   == IndexOfEq(e)
         IN  IF eq = 0 THEN rest
             ELSE [n \in DOMAIN rest \cup {SubSeq(e, 1, eq - 1)} |->
                     IF n = SubSeq(e, 1, eq - 1)
                     THEN SubSeq(e, eq + 1, Len(e))
                     ELSE rest[n]]

RECURSIVE NameRun(_, _)
\* how many characters from position j on belong to a name
NameRun(s, j) ==
    IF j <= Len(s) /\ s[j] \in NameChars THEN 1 + NameRun(s, j + 1) ELSE 0

\* the position of the first "}" from position j on, 0 when there is none
CloseAt(s, j) ==
    IF \E l \in j..Len(s) : s[l] = "}"
    THEN CHOOSE l \in j..Len(s) :
            s[l] = "}" /\ \A m \in j..(l - 1) : s[m] # "}"
    ELSE 0

RECURSIVE Expand(_, _)
\* os.Expand(s, makeGetenv(environ)): ${name} and $name are replaced by the
\* value of name in the environment
Expand(s, env) ==
    IF s = << >> THEN << >>
    ELSE IF Head(s) = "$" /\ Len(s) > 1
    THEN IF s[2] = "{"
         THEN LET close == CloseAt(s, 3)
              IN  IF close = 0
                  THEN Expand(SubSeq(s, 3, Len(s)), env)
                  ELSE IF close = 3
                  THEN Expand(SubSeq(s, 4, Len(s)), env)
                  ELSE getEnv(env, SubSeq(s, 3, close - 1))
                         \o Expand(SubSeq(s, close + 1, Len(s)), env)
         ELSE LET w == NameRun(s, 2)
              IN  IF w = 0
                  THEN <<"$">> \o Expand(Tail(s), env)
                  ELSE getEnv(env, SubSeq(s, 2, w + 1))
                         \o Expand(SubSeq(s, w + 2, Len(s)), env)
    ELSE <<Head(s)>> \o Expand(Tail(s), env)

RECURSIVE EvalTemplate(_, _)
\* the value of a quoted string of the new syntax in an evaluation context:
\* ${name} is the variable name, an error when there is none; every other
\* character stands for itself
EvalTemplate(s, variables) ==
    IF s = << >> THEN [ok |-> TRUE, val |-> << >>]
    ELSE IF Len(s) > 1 /\ s[1] = "$" /\ s[2] = "{" /\ CloseAt(s, 3) > 3
    THEN LET close == CloseAt(s, 3)
             name  == SubSeq(s, 3, close - 1)
             rest  == EvalTemplate(SubSeq(s, close + 1, Len(s)), variables)
         IN  IF name \in DOMAIN variables /\ rest.ok
             THEN [ok |-> TRUE, val |-> variables[name] \o rest.val]
             ELSE [ok |-> FALSE]
    ELSE LET rest == EvalTemplate(Tail(s), variables)
         IN  IF rest.ok THEN [ok |-> TRUE, val |-> <<Head(s)>> \o rest.val]
             ELSE rest

\* svchost.ForComparison: the hostname in the form hosts are compared in
ForComparison(hostname) ==
    CASE hostname = "EXAMPLE.COM" -> [ok |-> TRUE, host |-> "example.com"]
      [] hostname = "not a host" -> [ok |-> FALSE]
      [] OTHER -> [ok |-> TRUE, host |-> hostname]

\* file names are sequences of path elements, extensions and separators
hclFormat == "hcl"
jsonFormat == "json"
invalidFormat == ""

\* configFileFormat: filepath.Match of "*.tfrc" and "*.tfrc.json", whose
\* "*" matches no separator
configFileFormat(fn) ==
    LET noSep       == \A j \in 1..Len(fn) : fn[j] # "/"
        hclMatched  == noSep /\ IsSuffix(<<".tfrc">>, fn)
        jsonMatched == noSep /\ IsSuffix(<<".tfrc", ".json">>, fn)
    IN  CASE hclMatched -> hclFormat
          [] jsonMatched -> jsonFormat
          [] OTHER -> invalidFormat

\* diagnostics
ErrorDiag(summary) == [Severity |-> "Error", Summary |-> summary]

\* the warning loadConfigFile makes of a diagnostic of the new loader
WarningDiag(d) ==
    [Severity |-> "Warning", Summary |-> d.Summary,
     Detail |-> IF d.Severity = "Error"
                THEN "This message will become a fatal error in a future version of Terraform."
                ELSE ""]
HasErrors(ds) == \E j \in 1..Len(ds) : ds[j].Severity = "Error"

\* the name a file is loaded by: filepath.Join(dn, name) for a directory entry
FileName(file) ==
    IF file.dir = "" THEN file.name ELSE <<file.dir, "/">> \o file.name

\* &configFile{Filename: fn}
EmptyConfigFile(fn) ==
    [Filename |-> fn, Providers |-> {}, Provisioners |-> {},
     DisableCheckpoint |-> FALSE, DisableCheckpointSignature |-> FALSE,
     PluginCacheDir |-> << >>, Hosts |-> << >>, Credentials |-> << >>,
     CredentialsHelpers |-> << >>]

RECURSIVE DecodeCredentials(_, _, _)
\* loadConfigFileHCL, the loop over the blocks: of a credentials block the
\* token alone is kept; blocks of every other type are passed over
DecodeCredentials(blocks, variables, acc) ==
    IF blocks = << >> THEN acc
    ELSE LET block == Head(blocks)
             host  == ForComparison(block.host)
             token == IF "token" \in DOMAIN block.raw
                      THEN EvalTemplate(block.raw["token"], variables)
                      ELSE [ok |-> TRUE]
             next  ==
               IF ~host.ok
               THEN [acc EXCEPT !.diags = Append(@,
                       ErrorDiag("Invalid hostname for credentials block"))]
               ELSE IF ~token.ok
               THEN [acc EXCEPT !.diags = Append(@,
                       ErrorDiag("Unknown variable"))]
               ELSE [acc EXCEPT !.creds = Append(@,
                       [Host |-> host.host,
                        Raw  |-> IF "token" \in DOMAIN block.raw
                                 THEN [k \in {"token"} |-> token.val]
                                 ELSE << >>])]
         IN  DecodeCredentials(Tail(blocks), variables, next)

\* loadConfigFileHCL
loadConfigFileHCL(file, env) ==
    LET fn == FileName(file)
    IN  IF configFileFormat(fn) = invalidFormat
        THEN \* hclF is nil and hclDiags is empty: hclF.Body is a nil
             \* pointer dereference
             [panic |-> TRUE,
              diags |-> <<ErrorDiag("Unsupported CLI config format")>>]
        ELSE IF file.syntax # "both"
        THEN [panic |-> FALSE, nil |-> TRUE,
              diags |-> <<ErrorDiag("Invalid new-syntax file")>>]
        ELSE LET variables == environForHCL(env)
                 dir   == EvalTemplate(file.decl.PluginCacheDir, variables)
                 creds == DecodeCredentials(file.decl.Credentials, variables,
                            [creds |-> << >>,
                             diags |-> IF dir.ok THEN << >>
                                       ELSE <<ErrorDiag("Unknown variable")>>])
             IN  [panic |-> FALSE, nil |-> FALSE,
                  f |-> [EmptyConfigFile(fn) EXCEPT
                           !.DisableCheckpoint = file.decl.DisableCheckpoint,
                           !.DisableCheckpointSignature =
                               file.decl.DisableCheckpointSignature,
                           !.PluginCacheDir =
                               IF dir.ok THEN dir.val ELSE << >>,
                           !.Credentials = creds.creds],
                  diags |-> creds.diags]

\* the orders a Go map of these entries can be ranged over in
Orders(seq) ==
    {[j \in 1..Len(seq) |-> seq[p[j]]] :
        p \in {q \in [1..Len(seq) -> 1..Len(seq)] :
                 \A a, b \in 1..Len(seq) : a # b => q[a] # q[b]}}

RECURSIVE LegacyHosts(_, _)
\* loadConfigFileLegacyHCL, the loops over tmp.Hosts and tmp.Credentials
LegacyHosts(entries, what) ==
    IF entries = << >> THEN [list |-> << >>, diags |-> << >>]
    ELSE LET e    == Head(entries)
             host == ForComparison(e.host)
             rest == LegacyHosts(Tail(entries), what)
         IN  IF ~host.ok
             THEN [rest EXCEPT !.diags =
                     <<ErrorDiag(IF what = "host"
                                 THEN "Invalid hostname for host block"
                                 ELSE "Invalid hostname for credentials block")>>
                       \o @]
             ELSE [rest EXCEPT !.list =
                     <<IF what = "host"
                       THEN [Host |-> host.host, Services |-> e.services]
                       ELSE [Host |-> host.host, Raw |-> e.raw]>> \o @]

\* loadConfigFileLegacyHCL: every result the ranging over its maps can give
loadConfigFileLegacyHCL(file, env) ==
    LET fn == FileName(file)
    IN  IF file.syntax \notin {"both", "legacy"}
        THEN {[f |-> EmptyConfigFile(fn),
               diags |-> <<ErrorDiag("Error parsing")>>]}
        ELSE LET overrides(m) ==
                    {[Name |-> k, Path |-> Expand(m[k], env)] : k \in DOMAIN m}
             IN  {LET hosts == LegacyHosts(ho, "host")
                      creds == LegacyHosts(co, "credentials")
                  IN  [f |-> [Filename |-> fn,
                              Providers |-> overrides(file.decl.Providers),
                              Provisioners |->
                                  overrides(file.decl.Provisioners),
                              DisableCheckpoint |->
                                  file.decl.DisableCheckpoint,
                              DisableCheckpointSignature |->
                                  file.decl.DisableCheckpointSignature,
                              PluginCacheDir |->
                                  IF file.decl.PluginCacheDir # << >>
                                  THEN Expand(file.decl.PluginCacheDir, env)
                                  ELSE << >>,
                              Hosts |-> hosts.list,
                              Credentials |-> creds.list,
                              CredentialsHelpers |-> he],
                       diags |-> hosts.diags \o creds.diags] :
                    ho \in Orders(file.decl.Hosts),
                    co \in Orders(file.decl.Credentials),
                    he \in Orders(file.decl.CredentialsHelpers)}

\* loadConfigFile: the new loader first, the legacy loader when it reports
\* errors; the warnings made of the new loader's errors are appended to a
\* value that is not returned
loadConfigFile(file, env) ==
    LET new == loadConfigFileHCL(file, env)
    IN  IF new.panic THEN {[kind |-> "panic"]}
        ELSE IF HasErrors(new.diags)
        THEN {IF HasErrors(legacy.diags)
              THEN [kind |-> "failed", diags |-> new.diags]
              ELSE [kind |-> "legacy", f |-> legacy.f, diags |-> legacy.diags,
                    \* the local diags after the loop, which is not returned
                    local |-> new.diags \o [j \in 1..Len(new.diags) |->
                                              WarningDiag(new.diags[j])]] :
                 legacy \in loadConfigFileLegacyHCL(file, env)}
        ELSE {[kind |-> "new", f |-> new.f, diags |-> new.diags]}

\* environConfig
environConfig(env) ==
    [EmptyConfigFile(<<"<environment>">>) EXCEPT
       !.PluginCacheDir = getEnv(env, pluginCacheDirEnvVar)]

\* m[k] = v on a Go map
MapPut(m, k, v) == [x \in DOMAIN m \cup {k} |-> IF x = k THEN v ELSE m[x]]

RECURSIVE PutAll(_, _)
\* the loops of mergeFiles over a list keyed by Host
PutAll(m, list) ==
    IF list = << >> THEN m
    ELSE PutAll(MapPut(m, Head(list).Host, Head(list)), Tail(list))

\* a merge in which the override of an earlier file stays
PutOverridesKeepsEarlier(m, set) ==
    [n \in DOMAIN m \cup {o.Name : o \in set} |->
       IF n \in DOMAIN m THEN m[n] ELSE CHOOSE o \in set : o.Name = n]

\* the loops of mergeFiles over overrides, keyed by Name
PutOverrides(m, set) ==
    [n \in DOMAIN m \cup {o.Name : o \in set} |->
       IF \E o \in set : o.Name = n
       THEN CHOOSE o \in set : o.Name = n
       ELSE m[n]]

\* a nil *CredentialsHelper
NoHelper == [nil |-> TRUE]

\* &Config{...} at the start of mergeFiles
EmptyConfig ==
    [Providers |-> << >>, Provisioners |-> << >>,
     DisableCheckpoint |-> FALSE, DisableCheckpointSignature |-> FALSE,
     PluginCacheDir |-> << >>, Hosts |-> << >>, Credentials |-> << >>,
     CredentialsHelper |-> NoHelper]

\* the helper of the latest file that declares one
SelectHelperOfLatest(selected, f) ==
    IF Len(f.CredentialsHelpers) # 0 THEN f.CredentialsHelpers[1] ELSE selected

\* result.CredentialsHelper after the file: set only while it is nil
SelectHelper(selected, f) ==
    IF Len(f.CredentialsHelpers) # 0 /\ selected = NoHelper
    THEN f.CredentialsHelpers[1]
    ELSE selected

RECURSIVE MergeInto(_, _, _)
\* the loop of mergeFiles
MergeInto(result, ds, fs) ==
    IF fs = << >> THEN [cfg |-> result, diags |-> ds]
    ELSE LET f  == Head(fs)
             r1 == [result EXCEPT
                      !.Providers = PutOverrides(@, f.Providers),
                      !.Provisioners = PutOverrides(@, f.Provisioners),
                      !.DisableCheckpoint = @ \/ f.DisableCheckpoint,
                      !.DisableCheckpointSignature =
                          @ \/ f.DisableCheckpointSignature,
                      !.PluginCacheDir =
                          IF f.PluginCacheDir # << >> THEN f.PluginCacheDir
                          ELSE @,
                      !.Hosts = PutAll(@, f.Hosts),
                      !.Credentials = PutAll(@, f.Credentials)]
             r2 == [r1 EXCEPT !.CredentialsHelper =
                                 SelectHelper(result.CredentialsHelper, f)]
             d1 == IF Len(f.CredentialsHelpers) # 0
                      /\ result.CredentialsHelper # NoHelper
                   THEN Append(ds, ErrorDiag("Multiple credentials_helper blocks"))
                   ELSE ds
             d2 == IF Len(f.CredentialsHelpers) > 1
                   THEN Append(d1, ErrorDiag("Multiple credentials_helper blocks"))
                   ELSE d1
         IN  MergeInto(r2, d2, Tail(fs))

\* mergeFiles
mergeFiles(fs) == MergeInto(EmptyConfig, << >>, fs)

(***************************************************************************)
(* The files and environments LoadConfig is called with.  A file is the    *)
(* name it has, whether the new and the legacy parser accept it, and the   *)
(* constructs written in it.                                               *)
(***************************************************************************)
PlainPath == <<"f", "o">>
DollarRef == <<"$", "T", "F">>
BraceRef == <<"$", "{", "T", "F", "}">>
UnsetRef == <<"$", "{", "U", "}">>

NoDecl ==
    [Providers |-> << >>, Provisioners |-> << >>,
     DisableCheckpoint |-> FALSE, DisableCheckpointSignature |-> FALSE,
     PluginCacheDir |-> << >>, Hosts |-> << >>, Credentials |-> << >>,
     CredentialsHelpers |-> << >>]

Decls ==
    { NoDecl,
      [NoDecl EXCEPT
         !.Providers = [n \in {"aws", "google"} |->
                          IF n = "aws" THEN DollarRef ELSE PlainPath],
         !.Provisioners = [n \in {"local"} |-> BraceRef]],
      [NoDecl EXCEPT
         !.Providers = [n \in {"aws"} |-> PlainPath],
         !.DisableCheckpoint = TRUE],
      [NoDecl EXCEPT !.PluginCacheDir = DollarRef],
      [NoDecl EXCEPT !.PluginCacheDir = UnsetRef,
                     !.DisableCheckpointSignature = TRUE],
      [NoDecl EXCEPT
         !.Hosts = <<[host |-> "example.com", services |-> "modules.v1"]>>,
         !.Credentials =
             <<[host |-> "example.com",
                raw |-> [k \in {"token", "username"} |->
                           IF k = "token" THEN BraceRef ELSE PlainPath]]>>,
         !.CredentialsHelpers = <<[Type |-> "foo", Args |-> <<"bar">>]>>],
      [NoDecl EXCEPT
         !.Credentials =
             <<[host |-> "EXAMPLE.COM",
                raw |-> [k \in {"token"} |-> PlainPath]],
               [host |-> "example.com",
                raw |-> [k \in {"username"} |-> DollarRef]]>>,
         !.CredentialsHelpers = <<[Type |-> "foo", Args |-> <<"bar">>],
                                  [Type |-> "baz", Args |-> << >>]>>],
      [NoDecl EXCEPT
         !.Hosts = <<[host |-> "not a host", services |-> "modules.v1"]>>] }

File(dir, name, syntax, decl) ==
    [dir |-> dir, name |-> name, syntax |-> syntax, decl |-> decl]

\* files of both formats and of neither, files only the legacy parser
\* accepts, files no parser accepts, files that do not exist, and entries
\* of a configuration directory
Files ==
    {File("", <<"a", ".tfrc">>, s, d) : s \in {"both", "legacy"}, d \in Decls}
      \cup { File("", <<"a", ".tfrc", ".json">>, "both", NoDecl),
             File("", <<"config">>, "both", NoDecl),
             File("", <<"a", ".tfrc">>, "broken", NoDecl),
             File("", <<"a", ".tfrc">>, "absent", NoDecl),
             File("d", <<"a", ".tfrc">>, "both", NoDecl),
             File("d", <<"README">>, "both", NoDecl) }

Environs ==
    { << >>,
      << <<"T", "F", "=", "h", "i">> >>,
      << <<"T", "=", "x">>, <<"T", "F", "=", "h", "i">>,
         <<"T", "F", "=", "y", "o">> >>,
      << <<"F">>, pluginCacheDirEnvVar \o <<"=", "d">> >> }

\* the files named in configFiles come before the entries of configDirs
FilesThenDirs(s) ==
    \A a, b \in 1..Len(s) : (a < b /\ s[a].dir # "") => s[b].dir # ""

(***************************************************************************)
(* State of one call of UpgradeOldHCLConfig.                               *)
(***************************************************************************)
VARIABLES
    old,            \* the input bytes, as the document written in them
    oldF,           \* the legacy parser's file, once parsed
    adhocComments,  \* the queue of ad hoc comment groups
    newF,           \* the root body of the new file
    stack,          \* the active calls of upgradeBody, innermost last
    pc,             \* "start", "upgradeBody", "done" or "panic"
    ret,            \* the bytes returned
    panicMsg,       \* the value the call panicked with
    taken,          \* the groups the queue has returned, call after call
    call,           \* the last call of TakeBeforePos made on the queue alone
    sources,        \* LoadConfig: configFiles, then the entries of configDirs
    environ,        \* LoadConfig: the environment entries
    fileNo,         \* LoadConfig: the file its loops are at
    allFiles,       \* LoadConfig: the files loaded so far
    diags,          \* LoadConfig: the diagnostics so far
    cfg,            \* LoadConfig: the Config returned
    lpc             \* LoadConfig: "off", "files", "done" or "panic"

loaderVars == <<sources, environ, fileNo, allFiles, diags, cfg, lpc>>

\* what a call of UpgradeOldHCLConfig leaves alone
others == <<taken, call, loaderVars>>

\* no call of LoadConfig
LoaderOff ==
    /\ sources = << >>
    /\ environ = << >>
    /\ fileNo = 0
    /\ allFiles = << >>
    /\ diags = << >>
    /\ cfg = [kind |-> "none"]
    /\ lpc = "off"

vars == <<old, oldF, adhocComments, newF, stack, pc, ret, panicMsg, others>>

NoCall == [n |-> 0]

None == [kind |-> "none"]

\* the call of upgradeBody that is running, and the item its loop is at
Top == stack[Len(stack)]
AtItem == pc = "upgradeBody" /\ Top.i <= Len(Top.items)
CurItem == Top.items[Top.i]

configNeedsUpgrade(f) == TRUE

\* the names the old loader expanded environment variables in
ExpandEnvNames == {"providers", "provisioners", "plugin_cache_dir"}

\* oldDidExpandEnv without the test of the root flag
OldDidExpandEnvAnyList(root, name) == name \in ExpandEnvNames

\* upgradeBody: oldDidExpandEnv for an item of a list
OldDidExpandEnv(root, name) == root /\ name \in ExpandEnvNames

\* upgradeBody: blockSyntax for an item
BlockSyntax(item) ==
    IF item.Val.node # "Object"
    THEN TRUE
    ELSE item.Assign.Line = 0 \/ Len(item.Keys) > 1

RECURSIVE WriteGroups(_, _)
\* upgradeBody: every taken group, then a newline after each
WriteGroups(body, groups) ==
    IF groups = << >> THEN body
    ELSE WriteGroups(writeNewline(writeComments(body, Head(groups))),
                     Tail(groups))

RECURSIVE WriteRuns(_, _)
\* every taken group written with nothing after it
WriteRuns(body, groups) ==
    IF groups = << >> THEN body
    ELSE WriteRuns(writeComments(body, Head(groups)), Tail(groups))

\* the head of one iteration without the separators after the groups
BodyBeforeItemBare(body, q, item) ==
    writeComments(WriteRuns(body, TakeBefore(q, item).ret), item.LeadComment)

\* upgradeBody, the head of one iteration: the ad hoc comments in front of
\* the item and the item's lead comment, written to the body
BodyBeforeItem(body, q, item) ==
    writeComments(WriteGroups(body, TakeBefore(q, item).ret),
                  item.LeadComment)

\* upgradeBody, the tail of one iteration: a blank line when the next item
\* is more than one line away
BodyAfterItem(body, items, i) ==
    IF i + 1 <= Len(items)
       /\ items[i + 1].pos.Line - hcl1NodeEndPos(items[i]).Line > 1
    THEN writeNewline(body)
    ELSE body

\* the labels taken one key too early
BlockLabelsFromFirstKey(item) == SubSeq(item.Keys, 1, Len(item.Keys) - 1)

\* upgradeNestedBlock: the labels are the keys after the first
BlockLabels(item) == SubSeq(item.Keys, 2, Len(item.Keys))

\* upgradeArgument with expandEnv false, on one body
upgradeArgument(body, item) ==
    LET val == upgradeExpressionConstant(item.Val)
    IN  IF val.ok
        THEN Ok(writeComments(
                  SetAttributeValue(body, KeyName(item), val.val),
                  item.LineComment))
        ELSE val

\* a loop that starts at the second item of its list
FrameFromSecond(items, to, root) ==
    [items |-> items, i |-> 2, to |-> to, root |-> root]

\* a call of upgradeBody about to start its loop over the items
Frame(items, to, root) == [items |-> items, i |-> 1, to |-> to, root |-> root]

\* a parse failure answered with the bytes of an empty new file
ParseErrorReturnsNewFile ==
    /\ pc = "start"
    /\ old.err
    /\ ret' = [kind |-> "new", bytes |-> << >>]
    /\ pc' = "done"
    /\ UNCHANGED <<old, oldF, adhocComments, newF, stack, panicMsg>>
    /\ UNCHANGED others

\* hcl1parser.Parse fails: the input is returned
ParseError ==
    /\ pc = "start"
    /\ old.err
    /\ ret' = [kind |-> "old", bytes |-> old]
    /\ pc' = "done"
    /\ UNCHANGED <<old, oldF, adhocComments, newF, stack, panicMsg>>
    /\ UNCHANGED others

\* hcl1parser.Parse succeeds: the comments are collected and the walk begins
Begin ==
    /\ pc = "start"
    /\ ~old.err
    /\ oldF' = ParsedFile(old)
    /\ IF ~configNeedsUpgrade(oldF')
       THEN /\ ret' = [kind |-> "old", bytes |-> old]
            /\ pc' = "done"
            /\ UNCHANGED <<adhocComments, newF, stack>>
       ELSE /\ adhocComments' = collectAdhocComments(oldF')
            /\ newF' = << >>
            /\ stack' = <<Frame(oldF'.Node, << >>, TRUE)>>
            /\ pc' = "upgradeBody"
            /\ ret' = ret
    /\ UNCHANGED <<old, panicMsg>>
    /\ UNCHANGED others

\* the expansion path emitting the plain constant instead of panicking
ItemExpandEnvAsConstant ==
    /\ AtItem
    /\ OldDidExpandEnv(Top.root, KeyName(CurItem))
    /\ adhocComments' = TakeBefore(adhocComments, CurItem).q
    /\ newF' = ReplaceAt(newF, Top.to,
                 BodyAfterItem(
                   upgradeArgument(
                     BodyBeforeItem(BodyAt(newF, Top.to), adhocComments,
                                    CurItem),
                     CurItem).val,
                   Top.items, Top.i))
    /\ stack' = [stack EXCEPT ![Len(stack)].i = @ + 1]
    /\ UNCHANGED <<old, oldF, pc, ret, panicMsg>>
    /\ UNCHANGED others

\* one iteration of upgradeBody on an item the old loader expanded
\* environment variables in: upgradeArgument(item, to, true) panics
ItemExpandEnv ==
    /\ AtItem
    /\ OldDidExpandEnv(Top.root, KeyName(CurItem))
    /\ adhocComments' = TakeBefore(adhocComments, CurItem).q
    /\ newF' = ReplaceAt(newF, Top.to,
                 BodyBeforeItem(BodyAt(newF, Top.to), adhocComments, CurItem))
    /\ pc' = "panic"
    /\ panicMsg' = "ExpandEnv expression upgrade not yet supported"
    /\ UNCHANGED <<old, oldF, stack, ret>>
    /\ UNCHANGED others

\* one iteration of upgradeBody on an item in block syntax:
\* upgradeNestedBlock appends the block and walks the nested list
ItemBlock ==
    /\ AtItem
    /\ ~OldDidExpandEnv(Top.root, KeyName(CurItem))
    /\ BlockSyntax(CurItem)
    /\ adhocComments' = TakeBefore(adhocComments, CurItem).q
    /\ LET before == BodyBeforeItem(BodyAt(newF, Top.to), adhocComments,
                                    CurItem)
           body   == AppendNewBlock(before, KeyName(CurItem),
                                    BlockLabels(CurItem))
       IN  /\ newF' = ReplaceAt(newF, Top.to, body)
           /\ IF CurItem.Val.node = "Object"
              THEN /\ stack' = Append(stack,
                          Frame(CurItem.Val.Items,
                                Append(Top.to, Len(body)), FALSE))
                   /\ UNCHANGED <<pc, panicMsg>>
              ELSE /\ pc' = "panic"
                   /\ panicMsg' = "interface conversion: not *ast.ObjectType"
                   /\ UNCHANGED stack
    /\ UNCHANGED <<old, oldF, ret>>
    /\ UNCHANGED others

\* one iteration of upgradeBody on an item in argument syntax
ItemArgument ==
    /\ AtItem
    /\ ~OldDidExpandEnv(Top.root, KeyName(CurItem))
    /\ ~BlockSyntax(CurItem)
    /\ adhocComments' = TakeBefore(adhocComments, CurItem).q
    /\ LET before == BodyBeforeItem(BodyAt(newF, Top.to), adhocComments,
                                    CurItem)
           r      == upgradeArgument(before, CurItem)
       IN  IF r.ok
           THEN /\ newF' = ReplaceAt(newF, Top.to,
                              BodyAfterItem(r.val, Top.items, Top.i))
                /\ stack' = [stack EXCEPT ![Len(stack)].i = @ + 1]
                /\ UNCHANGED <<pc, panicMsg>>
           ELSE /\ newF' = ReplaceAt(newF, Top.to, before)
                /\ pc' = "panic"
                /\ panicMsg' = r.msg
                /\ UNCHANGED stack
    /\ UNCHANGED <<old, oldF, ret>>
    /\ UNCHANGED others

\* the nested upgradeBody returns: the caller finishes its iteration
EndBlock ==
    /\ pc = "upgradeBody"
    /\ Len(stack) > 1
    /\ Top.i > Len(Top.items)
    /\ LET caller == stack[Len(stack) - 1]
       IN  /\ newF' = ReplaceAt(newF, caller.to,
                        BodyAfterItem(BodyAt(newF, caller.to), caller.items,
                                      caller.i))
           /\ stack' = [SubSeq(stack, 1, Len(stack) - 1)
                           EXCEPT ![Len(stack) - 1].i = @ + 1]
    /\ UNCHANGED <<old, oldF, adhocComments, pc, ret, panicMsg>>
    /\ UNCHANGED others

\* the root upgradeBody returns: the new file's bytes are returned
Finish ==
    /\ pc = "upgradeBody"
    /\ Len(stack) = 1
    /\ Top.i > Len(Top.items)
    /\ ret' = [kind |-> "new", bytes |-> Bytes(newF)]
    /\ pc' = "done"
    /\ UNCHANGED <<old, oldF, adhocComments, newF, stack, panicMsg>>
    /\ UNCHANGED others

Next ==
    \/ ParseError
    \/ Begin
    \/ ItemExpandEnv
    \/ ItemBlock
    \/ ItemArgument
    \/ EndBlock
    \/ Finish

Init ==
    /\ old \in Inputs
    /\ oldF = None
    /\ adhocComments = << >>
    /\ newF = << >>
    /\ stack = << >>
    /\ pc = "start"
    /\ ret = None
    /\ panicMsg = ""
    /\ taken = << >>
    /\ call = NoCall
    /\ LoaderOff

Spec == Init /\ [][Next]_vars

(***************************************************************************)
(* The comment queue on its own: a queue collected from a file, and calls  *)
(* of TakeBeforePos on it with any position of the file as the cutoff.     *)
(***************************************************************************)
MaxCalls == 3

\* documents with ad hoc comments in front of the root items and at the end
QueueDocs ==
    {CommentedDoc(<<ad[1], ad[2], 0, 0, ad[3], ad[4], 0>>, own,
                  AttrShape("c", EmptyObj)) :
        ad \in [1..4 -> 0..MaxAdhoc], own \in BOOLEAN}

RECURSIVE PositionsIn(_)
RECURSIVE PositionsInAll(_)
PositionsInAll(nodes) ==
    IF nodes = << >> THEN {}
    ELSE PositionsIn(Head(nodes)) \cup PositionsInAll(Tail(nodes))

\* the positions of the nodes and tokens below a node
PositionsIn(n) ==
    CASE n.node = "Literal" -> {n.pos}
      [] n.node = "List" -> {n.pos, n.Rbrack} \cup PositionsInAll(n.List)
      [] n.node = "Object" -> {n.pos, n.Rbrace} \cup PositionsInAll(n.Items)
      [] n.node = "Item" ->
           {n.pos} \cup (IF n.Assign.Line = 0 THEN {} ELSE {n.Assign})
             \cup PositionsIn(n.Val)

\* the positions a caller can pass: nodes, tokens and comments of the file
Cutoffs(f) ==
    PositionsInAll(f.Node)
      \cup {GroupPos(f.Comments[j]) : j \in 1..Len(f.Comments)}

QueueInit ==
    /\ old \in QueueDocs
    /\ oldF = None
    /\ adhocComments = << >>
    /\ newF = << >>
    /\ stack = << >>
    /\ pc = "collect"
    /\ ret = None
    /\ panicMsg = ""
    /\ taken = << >>
    /\ call = NoCall
    /\ LoaderOff

\* the file is parsed and its ad hoc comments are collected into the queue
Collect ==
    /\ pc = "collect"
    /\ oldF' = ParsedFile(old)
    /\ adhocComments' = collectAdhocComments(oldF')
    /\ pc' = "queue"
    /\ UNCHANGED <<old, newF, stack, ret, panicMsg, taken, call, loaderVars>>

\* one call of TakeBeforePos (TakeBefore and TakeBeforeToken pass the
\* position of their node or token)
TakeBeforePosCall ==
    /\ pc = "queue"
    /\ call.n < MaxCalls
    /\ \E pos \in Cutoffs(oldF) :
          LET r == TakeBeforePos(adhocComments, pos)
          IN  /\ adhocComments' = r.q
              /\ taken' = taken \o r.ret
              /\ call' = [n |-> call.n + 1, q |-> adhocComments,
                          pos |-> pos, ret |-> r.ret]
    /\ UNCHANGED <<old, oldF, newF, stack, pc, ret, panicMsg, loaderVars>>

QueueNext ==
    \/ Collect
    \/ TakeBeforePosCall

SpecQueue == QueueInit /\ [][QueueNext]_vars

(***************************************************************************)
(* One call of LoadConfig.                                                 *)
(***************************************************************************)
UpgraderOff ==
    /\ old = None
    /\ oldF = None
    /\ adhocComments = << >>
    /\ newF = << >>
    /\ stack = << >>
    /\ pc = "off"
    /\ ret = None
    /\ panicMsg = ""
    /\ taken = << >>
    /\ call = NoCall

upgraderVars ==
    <<old, oldF, adhocComments, newF, stack, pc, ret, panicMsg, taken, call>>

LoadInit ==
    /\ UpgraderOff
    /\ sources \in {s \in SeqsUpTo(Files, MaxFiles) : FilesThenDirs(s)}
    /\ environ \in Environs
    /\ fileNo = 1
    /\ allFiles = << >>
    /\ diags = << >>
    /\ cfg = None
    /\ lpc = "files"

AtFile == lpc = "files" /\ fileNo <= Len(sources)
CurFile == sources[fileNo]

\* os.Stat fails on a named file, or a directory entry has no configuration
\* file name: the loop goes on
SkipFile ==
    /\ AtFile
    /\ \/ CurFile.dir = "" /\ CurFile.syntax = "absent"
       \/ CurFile.dir # "" /\ configFileFormat(CurFile.name) = invalidFormat
    /\ fileNo' = fileNo + 1
    /\ UNCHANGED <<sources, environ, allFiles, diags, cfg, lpc>>
    /\ UNCHANGED upgraderVars

Loadable ==
    /\ AtFile
    /\ IF CurFile.dir = "" THEN CurFile.syntax # "absent"
       ELSE configFileFormat(CurFile.name) # invalidFormat

\* what LoadConfig does with a file loadConfigFile has returned
Loaded(out) ==
    /\ diags' = diags \o out.diags
    /\ allFiles' = IF HasErrors(out.diags) THEN allFiles
                   ELSE Append(allFiles, out.f)
    /\ fileNo' = fileNo + 1
    /\ UNCHANGED <<sources, environ, cfg, lpc>>
    /\ UNCHANGED upgraderVars

\* the new loader reads the file without errors
LoadFileNew ==
    /\ Loadable
    /\ \E out \in loadConfigFile(CurFile, environ) :
          out.kind = "new" /\ Loaded(out)

\* the new loader reports errors and the legacy loader reads the file
LoadFileLegacy ==
    /\ Loadable
    /\ \E out \in loadConfigFile(CurFile, environ) :
          out.kind = "legacy" /\ Loaded(out)

\* both loaders report errors: no file, the new loader's diagnostics
LoadFileFails ==
    /\ Loadable
    /\ \E out \in loadConfigFile(CurFile, environ) :
          /\ out.kind = "failed"
          /\ diags' = diags \o out.diags
          /\ fileNo' = fileNo + 1
          /\ UNCHANGED <<sources, environ, allFiles, cfg, lpc>>
          /\ UNCHANGED upgraderVars

\* the file name has neither format: loadConfigFileHCL dereferences the
\* file it did not parse
LoadFilePanics ==
    /\ Loadable
    /\ \E out \in loadConfigFile(CurFile, environ) : out.kind = "panic"
    /\ lpc' = "panic"
    /\ UNCHANGED <<sources, environ, fileNo, allFiles, diags, cfg>>
    /\ UNCHANGED upgraderVars

\* the environment is appended as a file of its own and the files are merged
MergeFiles ==
    /\ lpc = "files"
    /\ fileNo > Len(sources)
    /\ allFiles' = Append(allFiles, environConfig(environ))
    /\ LET r == mergeFiles(allFiles')
       IN  /\ cfg' = r.cfg
           /\ diags' = diags \o r.diags
    /\ lpc' = "done"
    /\ UNCHANGED <<sources, environ, fileNo>>
    /\ UNCHANGED upgraderVars

LoadNext ==
    \/ SkipFile
    \/ LoadFileNew
    \/ LoadFileLegacy
    \/ LoadFileFails
    \/ LoadFilePanics
    \/ MergeFiles

SpecLoad == LoadInit /\ [][LoadNext]_vars

(***************************************************************************)
(* Vocabulary of the properties.                                           *)
(***************************************************************************)
Parsed == oldF # None
Upgraded == pc = "done" /\ ret.kind = "new"
ExpandEnvMsg == "ExpandEnv expression upgrade not yet supported"

\* the call panicked while its loop was at item j of the list of frame k
DiedAt(k, j) == pc = "panic" /\ k = Len(stack) /\ stack[k].i = j

\* the walk has dealt with item j of the list of frame k without a panic
Passed(k, j) == j < stack[k].i \/ (j = stack[k].i /\ k < Len(stack))

\* written as a single name = value
SingleForm(item) == item.Assign.Line # 0 /\ Len(item.Keys) = 1

\* the names of the fixed set, as the specification lists them
FixedNames == {"providers", "provisioners", "plugin_cache_dir"}

RECURSIVE HasMarker(_)
\* the value holds a string with a substitution marker
HasMarker(v) ==
    CASE v.node = "Literal" -> v.type = "string" /\ v.text = "${FOO}"
      [] v.node = "List" -> \E j \in 1..Len(v.List) : HasMarker(v.List[j])
      [] v.node = "Object" ->
           \E j \in 1..Len(v.Items) : HasMarker(v.Items[j].Val)

(***************************************************************************)
(* C1: when the legacy parser fails on the input, the call returns exactly  *)
(* the input bytes; no comment queue and no new body is built and the call  *)
(* does not panic.                                                          *)
(***************************************************************************)
C1_UnparseableReturnedUnchanged ==
    old.err =>
       /\ pc \in {"start", "done"}
       /\ pc = "done" => ret = [kind |-> "old", bytes |-> old]
       /\ oldF = None /\ adhocComments = << >> /\ newF = << >>
       /\ stack = << >>

C1_Witness == old.err /\ pc = "done"

(***************************************************************************)
(* C4: an item takes the environment-expansion path if and only if its     *)
(* list is the document root and its first key is one of providers,        *)
(* provisioners, plugin_cache_dir; items of nested blocks never do.        *)
(***************************************************************************)
C4_EligibleIffRootAndFixedName ==
    \A k \in 1..Len(stack) : \A j \in 1..Len(stack[k].items) :
       LET eligible == k = 1 /\ stack[k].items[j].Keys[1] \in FixedNames
       IN  /\ Passed(k, j) => ~eligible
           /\ DiedAt(k, j) => (eligible <=> panicMsg = ExpandEnvMsg)

C4_Witness ==
    /\ Len(stack) = 2
    /\ stack[2].i = 2
    /\ stack[2].items[1].Keys[1] = "providers"
    /\ pc = "upgradeBody"

(***************************************************************************)
(* C5: a root item of the fixed set that carries a compound value or a     *)
(* literal ${FOO} makes the call panic: the walk never gets past it, no    *)
(* bytes are returned and no attribute of its name is written.             *)
(***************************************************************************)
Unsupported(item) ==
    /\ item.Keys[1] \in FixedNames
    /\ item.Val.node \in {"List", "Object"} \/ HasMarker(item.Val)

C3_EligibleLiteralUpgraded ==
    Parsed =>
      \A j \in 1..Len(oldF.Node) :
         LET item == oldF.Node[j]
         IN  (/\ item.Keys[1] \in FixedNames
              /\ item.Val.node \in {"Literal", "Object"}
              /\ ~HasMarker(item.Val)) =>
                /\ ~DiedAt(1, j)
                /\ Passed(1, j) => HasAttribute(newF, item.Keys[1])

(***************************************************************************)
(* C8: an item outside the fixed set written as a single name = value is   *)
(* emitted as an attribute whatever the type of its value, and an item     *)
(* with a nested body is emitted as a block.                               *)
(***************************************************************************)
C8_ShapeKept ==
    \A k \in 1..Len(stack) : \A j \in 1..Len(stack[k].items) :
       LET item == stack[k].items[j]
           body == BodyAt(newF, stack[k].to)
       IN  ~(k = 1 /\ item.Keys[1] \in FixedNames) =>
              /\ SingleForm(item) => ~DiedAt(k, j)
              /\ (SingleForm(item) /\ Passed(k, j)) =>
                    HasAttribute(body, item.Keys[1])
              /\ (~SingleForm(item) /\ Passed(k, j)) =>
                    \E n \in 1..Len(body) :
                       /\ body[n].t = "block"
                       /\ body[n].name = item.Keys[1]

(***************************************************************************)
(* C6: a root document that defines one plain attribute name twice with    *)
(* different constant values is upgraded to a body with exactly one        *)
(* attribute of that name, holding the last value; no body under           *)
(* construction ever has an attribute name twice.                          *)
(***************************************************************************)
RECURSIVE UniqueAttributes(_)
\* no attribute name occurs twice in the body or in a body nested in it
UniqueAttributes(body) ==
    /\ \A m, n \in 1..Len(body) :
          (body[m].t = "attr" /\ body[n].t = "attr"
             /\ body[m].name = body[n].name) => m = n
    /\ \A n \in 1..Len(body) :
          body[n].t = "block" => UniqueAttributes(body[n].body)

\* items m < n of the root give one plain name two different values, and n
\* is the last definition of the name
DefinedTwice(m, n) ==
    LET items == oldF.Node
    IN  /\ m < n
        /\ SingleForm(items[m]) /\ SingleForm(items[n])
        /\ items[m].Keys[1] = items[n].Keys[1]
        /\ items[m].Keys[1] \notin FixedNames
        /\ upgradeExpressionConstant(items[m].Val)
             # upgradeExpressionConstant(items[n].Val)
        /\ \A l \in (n + 1)..Len(items) : items[l].Keys[1] # items[n].Keys[1]

LastWins(n) ==
    LET item == oldF.Node[n]
    IN  \E a \in 1..Len(newF) :
           /\ newF[a].t = "attr"
           /\ newF[a].name = item.Keys[1]
           /\ Ok(newF[a].val) = upgradeExpressionConstant(item.Val)

C6_NoDuplicateAttribute == UniqueAttributes(newF)

C6_AttributeLastWins ==
    /\ C6_NoDuplicateAttribute
    /\ Parsed =>
         \A m, n \in 1..Len(oldF.Node) :
            DefinedTwice(m, n) =>
               /\ ~DiedAt(1, m) /\ ~DiedAt(1, n)
               /\ Passed(1, n) => LastWins(n)

(***************************************************************************)
(* C7: block recursion keeps the structure: the blocks of the output are   *)
(* the block-shaped items of the input, level by level, each named after   *)
(* the first key and labelled with the other keys in order, and a nested   *)
(* list is upgraded with the root flag false.                              *)
(***************************************************************************)
RECURSIVE ItemSkeleton(_)
\* the block-shaped items of a legacy list, with their nesting
ItemSkeleton(items) ==
    IF items = << >> THEN << >>
    ELSE LET item == Head(items)
         IN  (IF SingleForm(item) THEN << >>
              ELSE <<[name |-> item.Keys[1], labels |-> Tail(item.Keys),
                      nested |-> ItemSkeleton(item.Val.Items)]>>)
             \o ItemSkeleton(Tail(items))

RECURSIVE BlockSkeleton(_)
\* the blocks of a new body, with their nesting
BlockSkeleton(body) ==
    IF body = << >> THEN << >>
    ELSE LET n == Head(body)
         IN  (IF n.t = "block"
              THEN <<[name |-> n.name, labels |-> n.labels,
                      nested |-> BlockSkeleton(n.body)]>>
              ELSE << >>)
             \o BlockSkeleton(Tail(body))

RECURSIVE SkeletonDepth(_)
SkeletonDepth(sk) ==
    IF sk = << >> THEN 0
    ELSE LET d == 1 + SkeletonDepth(Head(sk).nested)
             r == SkeletonDepth(Tail(sk))
         IN  IF d > r THEN d ELSE r

C7_BlockStructureKept ==
    /\ Upgraded => BlockSkeleton(newF) = ItemSkeleton(oldF.Node)
    /\ \A k \in 2..Len(stack) :
          LET caller == stack[k - 1]
              item   == caller.items[caller.i]
              block  == BodyAt(newF, caller.to)[stack[k].to[k - 1]]
          IN  /\ ~stack[k].root
              /\ Len(stack[k].to) = k - 1
              /\ block.t = "block"
              /\ block.name = item.Keys[1]
              /\ block.labels = Tail(item.Keys)
              /\ stack[k].items = item.Val.Items

C7_Witness ==
    /\ Upgraded
    /\ SkeletonDepth(BlockSkeleton(newF)) = MaxDepth
    /\ newF[1].labels = <<"a", "b">>

(***************************************************************************)
(* C9: ad hoc comment groups come out in source order: of two groups in    *)
(* the output tokens the one earlier in the source is the earlier token,   *)
(* in root and nested bodies alike, and no group is in the output twice.   *)
(***************************************************************************)
RECURSIVE AttachedIn(_)
RECURSIVE AttachedInAll(_)
\* the comment groups the parser attached to an item or a literal as lead or
\* line comment
AttachedInAll(nodes) ==
    IF nodes = << >> THEN {}
    ELSE AttachedIn(Head(nodes)) \cup AttachedInAll(Tail(nodes))

AttachedIn(n) ==
    CASE n.node = "Item" ->
           ({n.LeadComment, n.LineComment} \ {NoGroup}) \cup AttachedIn(n.Val)
      [] n.node = "Object" -> AttachedInAll(n.Items)
      [] n.node = "List" -> AttachedInAll(n.List)
      [] n.node = "Literal" -> {n.LeadComment, n.LineComment} \ {NoGroup}

\* the groups of the file that belong to no item
AdhocGroups ==
    {oldF.Comments[j] : j \in 1..Len(oldF.Comments)} \ AttachedInAll(oldF.Node)

GroupOfText(text) == CHOOSE g \in AdhocGroups : g.List[1].Text = text

IsAdhocToken(tok) ==
    /\ tok.Type = "TokenComment"
    /\ \E g \in AdhocGroups : g.List[1].Text = tok.Bytes

\* the ad hoc comments among some output tokens, in output order
AdhocEmitted(toks) == SelectSeq(toks, IsAdhocToken)

C9_CommentsInSourceOrder ==
    Parsed =>
      LET cs == AdhocEmitted(Bytes(newF))
      IN  \A a, b \in 1..Len(cs) :
             a < b => Before(GroupPos(GroupOfText(cs[a].Bytes)),
                             GroupPos(GroupOfText(cs[b].Bytes)))

C9_Witness ==
    /\ Upgraded
    /\ Len(AdhocEmitted(ret.bytes)) >= 6
    /\ \E n \in 1..Len(newF) :
          /\ newF[n].t = "block"
          /\ AdhocEmitted(Bytes(newF[n].body)) # << >>

(***************************************************************************)
(* C10: when the upgrade returns, every ad hoc comment group of the source *)
(* is in the output exactly once and the queue is empty.                   *)
(***************************************************************************)
C10_EveryCommentWritten ==
    Upgraded =>
       /\ adhocComments = << >>
       /\ \A g \in AdhocGroups :
             Cardinality({n \in 1..Len(ret.bytes) :
                            /\ ret.bytes[n].Type = "TokenComment"
                            /\ ret.bytes[n].Bytes = g.List[1].Text}) = 1

(***************************************************************************)
(* C2: when the upgrade of a parseable document completes, the output read *)
(* with last-definition-wins semantics defines what the input defines for  *)
(* the legacy interpreter: the same attributes with equal values and the   *)
(* same blocks, labels and nested contents, every key level included.      *)
(***************************************************************************)
RECURSIVE KeyLevels(_, _)
\* the value of an item with further keys: one object level for each key
KeyLevels(keys, v) ==
    IF keys = << >> THEN v
    ELSE ObjectVal([x \in {Head(keys)} |-> KeyLevels(Tail(keys), v)])

Put(f, name, v) ==
    [x \in DOMAIN f \cup {name} |-> IF x = name THEN v ELSE f[x]]

RECURSIVE LegacyValue(_)
RECURSIVE LegacyList(_)
RECURSIVE LegacyObject(_, _)

LegacyList(nodes) ==
    IF nodes = << >> THEN << >>
    ELSE <<LegacyValue(Head(nodes))>> \o LegacyList(Tail(nodes))

LegacyObject(items, acc) ==
    IF items = << >> THEN acc
    ELSE LET item == Head(items)
         IN  LegacyObject(Tail(items),
               Put(acc, item.Keys[1],
                   KeyLevels(Tail(item.Keys), LegacyValue(item.Val))))

\* what the legacy interpreter reads in a value
LegacyValue(n) ==
    CASE n.node = "Literal" ->
           (CASE n.type \in {"string", "heredoc"} -> StringVal(n.text)
              [] n.type = "number" -> NumberIntVal(n.text)
              [] n.type = "float" -> NumberFloatVal(n.text)
              [] n.type = "bool" -> BoolVal(n.text))
      [] n.node = "List" -> TupleVal(LegacyList(n.List))
      [] n.node = "Object" -> ObjectVal(LegacyObject(n.Items, << >>))

RECURSIVE LegacyAttrs(_, _)
RECURSIVE LegacyBlocks(_)
RECURSIVE NewAttrs(_, _)
RECURSIVE NewBlocks(_)

LegacyAttrs(items, acc) ==
    IF items = << >> THEN acc
    ELSE LET item == Head(items)
         IN  LegacyAttrs(Tail(items),
               IF SingleForm(item)
               THEN Put(acc, item.Keys[1], LegacyValue(item.Val))
               ELSE acc)

LegacyBlocks(items) ==
    IF items = << >> THEN << >>
    ELSE LET item == Head(items)
         IN  (IF SingleForm(item) THEN << >>
              ELSE <<[name |-> item.Keys[1], labels |-> Tail(item.Keys),
                      attrs |-> LegacyAttrs(item.Val.Items, << >>),
                      blocks |-> LegacyBlocks(item.Val.Items)]>>)
             \o LegacyBlocks(Tail(items))

NewAttrs(body, acc) ==
    IF body = << >> THEN acc
    ELSE LET n == Head(body)
         IN  NewAttrs(Tail(body),
               IF n.t = "attr" THEN Put(acc, n.name, n.val) ELSE acc)

NewBlocks(body) ==
    IF body = << >> THEN << >>
    ELSE LET n == Head(body)
         IN  (IF n.t = "block"
              THEN <<[name |-> n.name, labels |-> n.labels,
                      attrs |-> NewAttrs(n.body, << >>),
                      blocks |-> NewBlocks(n.body)]>>
              ELSE << >>)
             \o NewBlocks(Tail(body))

C2_SameSettings ==
    Upgraded =>
       /\ NewAttrs(newF, << >>) = LegacyAttrs(oldF.Node, << >>)
       /\ NewBlocks(newF) = LegacyBlocks(oldF.Node)

(***************************************************************************)
(* C11: a parseable input that needs no upgrade is returned byte for byte: *)
(* a document already in the upgraded form round-trips without the tree    *)
(* upgrade running.                                                        *)
(***************************************************************************)
RECURSIVE SingleKeys(_)
\* a constant value whose object items all have one key
SingleKeys(v) ==
    CASE v.node = "Literal" -> TRUE
      [] v.node = "List" -> \A j \in 1..Len(v.List) : SingleKeys(v.List[j])
      [] v.node = "Object" ->
           \A j \in 1..Len(v.Items) :
              /\ Len(v.Items[j].Keys) = 1
              /\ SingleKeys(v.Items[j].Val)

RECURSIVE UpgradedForm(_, _)
\* a list the upgrade has nothing to change in: no name of the fixed set at
\* the root, every argument defined once, blocks without assignment
UpgradedForm(items, root) ==
    \A j \in 1..Len(items) :
       LET item == items[j]
       IN  /\ ~(root /\ item.Keys[1] \in FixedNames)
           /\ SingleForm(item) =>
                /\ SingleKeys(item.Val)
                /\ \A l \in 1..Len(items) :
                      (SingleForm(items[l])
                         /\ items[l].Keys[1] = item.Keys[1]) => l = j
           /\ ~SingleForm(item) =>
                /\ item.Assign.Line = 0
                /\ UpgradedForm(item.Val.Items, FALSE)

C11_NoUpgradeRoundTrips ==
    (Parsed /\ UpgradedForm(oldF.Node, TRUE)) =>
       /\ pc \notin {"upgradeBody", "panic"}
       /\ pc = "done" => ret = [kind |-> "old", bytes |-> old]

(***************************************************************************)
(* C14: collectAdhocComments returns exactly the comment groups of the     *)
(* file's comment table that are not the lead or line comment of a literal *)
(* or an object item, each once, in strictly ascending source position,    *)
(* whatever the order in which the tree is walked.                         *)
(***************************************************************************)
Reverse(seq) == [j \in 1..Len(seq) |-> seq[Len(seq) + 1 - j]]

C14_QueueIsAdhocSorted ==
    Parsed =>
      LET q == collectAdhocComments(oldF)
      IN  /\ {q[j] : j \in 1..Len(q)} = AdhocGroups
          /\ Len(q) = Cardinality(AdhocGroups)
          /\ \A a, b \in 1..Len(q) :
                a < b => /\ Before(GroupPos(q[a]), GroupPos(q[b]))
                         /\ ~Before(GroupPos(q[b]), GroupPos(q[a]))
          /\ collectInOrder(oldF, DeletedInAll(oldF.Node)) = q
          /\ collectInOrder(oldF, Reverse(DeletedInAll(oldF.Node))) = q

\* a file with ad hoc groups next to comments owned by items and by literals
C14_Witness ==
    /\ Parsed
    /\ Len(collectAdhocComments(oldF)) >= 1
    /\ \E j \in 1..Len(oldF.Node) :
          \E g \in AttachedIn(oldF.Node[j]) :
             g \notin {oldF.Node[j].LeadComment, oldF.Node[j].LineComment}

(***************************************************************************)
(* C15: TakeBeforePos on a position-sorted queue removes and returns, in   *)
(* ascending order, exactly the queued groups at or before the cutoff (a   *)
(* group at the very cutoff is taken), leaves the later groups queued in   *)
(* their order, and returns nothing and leaves the queue as it is when no  *)
(* group qualifies.                                                        *)
(***************************************************************************)
\* positions of one file: at or before
AtOrBefore(p, u) == p.Offset <= u.Offset

C15_TakesUpToCutoff ==
    call.n > 0 =>
      LET qualifies(g) == AtOrBefore(GroupPos(g), call.pos)
      IN  /\ call.ret \o adhocComments = call.q
          /\ \A j \in 1..Len(call.ret) : qualifies(call.ret[j])
          /\ \A j \in 1..Len(adhocComments) : ~qualifies(adhocComments[j])
          /\ (\A j \in 1..Len(call.q) : ~qualifies(call.q[j])) =>
                call.ret = << >> /\ adhocComments = call.q

\* a call that took a group at the very cutoff and left a later one queued
C15_Witness ==
    /\ call.n > 0
    /\ \E j \in 1..Len(call.ret) : GroupPos(call.ret[j]) = call.pos
    /\ Len(call.ret) >= 2
    /\ adhocComments # << >>

(***************************************************************************)
(* C16: over any sequence of calls with any cutoffs, a later cutoff        *)
(* smaller than an earlier one included, no group is returned twice, the   *)
(* results put end to end are strictly increasing in source position, and  *)
(* the groups returned together with the groups still queued are the       *)
(* groups collected.                                                       *)
(***************************************************************************)
C16_QueueMonotone ==
    pc = "queue" =>
      LET collected == collectAdhocComments(oldF)
          elems(q)  == {q[j] : j \in 1..Len(q)}
      IN  /\ \A a, b \in 1..Len(taken) :
                a < b => /\ taken[a] # taken[b]
                         /\ GroupPos(taken[a]).Offset < GroupPos(taken[b]).Offset
          /\ elems(taken) \cup elems(adhocComments) = elems(collected)
          /\ elems(taken) \cap elems(adhocComments) = {}
          /\ taken \o adhocComments = collected

\* a call with a cutoff in front of groups returned by earlier calls, while
\* later groups are still queued
C16_Witness ==
    /\ call.n >= 2
    /\ Len(taken) >= 2
    /\ \E a \in 1..Len(taken) :
          GroupPos(taken[a]).Offset > call.pos.Offset
    /\ \E a \in 1..Len(taken) :
          GroupPos(taken[a]).Offset < call.pos.Offset
    /\ adhocComments # << >>

(***************************************************************************)
(* C17: every ad hoc comment group taken before an item is written as a    *)
(* raw comment-token run, and a blank separator line is written after each *)
(* group, the last one before the item included.  (As first stated: a      *)
(* separator between consecutive groups but none after the last.)          *)
(***************************************************************************)
RECURSIVE AllBodies(_)
\* a body and the bodies of the blocks below it
AllBodies(body) ==
    {body} \cup UNION {AllBodies(body[n].body) :
                         n \in {m \in 1..Len(body) : body[m].t = "block"}}

\* a run of raw tokens holding exactly the comments of one ad hoc group
IsAdhocRun(e) ==
    /\ e.t = "tokens"
    /\ \E g \in AdhocGroups : e.toks = CommentTokens(g.List)

\* a comment token of an ad hoc group is never written outside such a run
AdhocOnlyInRuns(b) ==
    \A n \in 1..Len(b) :
       (b[n].t = "tokens" /\ \E j \in 1..Len(b[n].toks) : IsAdhocToken(b[n].toks[j]))
          => IsAdhocRun(b[n])

C17_SeparatorAfterEachGroup ==
    Parsed =>
      \A b \in AllBodies(newF) :
         /\ AdhocOnlyInRuns(b)
         /\ \A n \in 1..Len(b) :
               IsAdhocRun(b[n]) => n < Len(b) /\ b[n + 1].t = "newline"

\* the statement as first made: no separator after the last group
C17_NoSeparatorAfterLastGroup ==
    Parsed =>
      \A b \in AllBodies(newF) :
         \A n \in 1..Len(b) :
            (IsAdhocRun(b[n]) /\ n < Len(b)) =>
               (b[n + 1].t = "newline"
                  <=> (n + 2 <= Len(b) /\ IsAdhocRun(b[n + 2])))

\* two groups taken before one block, each followed by its separator
C17_Witness ==
    /\ Parsed
    /\ \E n \in 1..Len(newF) :
          /\ n + 4 <= Len(newF)
          /\ IsAdhocRun(newF[n]) /\ newF[n + 1].t = "newline"
          /\ IsAdhocRun(newF[n + 2]) /\ newF[n + 3].t = "newline"
          /\ newF[n + 4].t = "block"

(***************************************************************************)
(* C18: every comment group the collector leaves out of the queue as owned *)
(* (the lead or line comment of an object item or of a literal) is written *)
(* by the upgrade when it processes the node, for arguments and blocks     *)
(* alike, exactly once.                                                    *)
(***************************************************************************)
\* how many tokens of the output are the comment of a group
TimesWritten(toks, g) ==
    Cardinality({j \in 1..Len(toks) :
                   /\ toks[j].Type = "TokenComment"
                   /\ toks[j].Bytes = g.List[1].Text})

C18_OwnedCommentsWritten ==
    Upgraded =>
      \A g \in AttachedInAll(oldF.Node) : TimesWritten(ret.bytes, g) = 1

(***************************************************************************)
(* C19: after an item that is not the last of its list exactly one blank   *)
(* separator line is written if and only if the next item starts more than *)
(* one line after the item's estimated end line, and none after the last   *)
(* item; the estimated end line is the line of the item's last line        *)
(* comment if it has one, otherwise the line of the closing bracket or     *)
(* brace of a list or object value, otherwise the line the value starts on.*)
(***************************************************************************)
EstimatedEndLine(item) ==
    IF item.LineComment # NoGroup
    THEN item.LineComment.List[Len(item.LineComment.List)].Start.Line
    ELSE CASE item.Val.node = "List" -> item.Val.Rbrack.Line
           [] item.Val.node = "Object" -> item.Val.Rbrace.Line
           [] OTHER -> item.Val.pos.Line

\* 1 when a separator is due after item i of a list, 0 otherwise
BlankDue(items, i) ==
    IF i < Len(items) /\ items[i + 1].pos.Line - EstimatedEndLine(items[i]) > 1
    THEN 1 ELSE 0

NewlinesIn(b) == Cardinality({n \in 1..Len(b) : b[n].t = "newline"})

RECURSIVE ItemsBelowAll(_)
RECURSIVE ItemsBelow(_)
ItemsBelowAll(nodes) ==
    IF nodes = << >> THEN {}
    ELSE ItemsBelow(Head(nodes)) \cup ItemsBelowAll(Tail(nodes))

\* the object items at and below a node
ItemsBelow(n) ==
    CASE n.node = "Item" -> {n} \cup ItemsBelow(n.Val)
      [] n.node = "Object" -> ItemsBelowAll(n.Items)
      [] n.node = "List" -> ItemsBelowAll(n.List)
      [] OTHER -> {}

\* the loop of frame k finishes the iteration of its item in this step
FinishesItem(k) ==
    /\ k <= Len(stack) /\ k <= Len(stack')
    /\ stack'[k].i = stack[k].i + 1

C19_EndLineEstimate ==
    Parsed =>
      \A item \in ItemsBelowAll(oldF.Node) :
         hcl1NodeEndPos(item).Line = EstimatedEndLine(item)

C19_BlankLineRule ==
    /\ []C19_EndLineEstimate
    /\ [][\A k \in 1..Len(stack) :
            FinishesItem(k) =>
              LET b     == BodyAt(newF, stack[k].to)
                  after == BodyAt(newF', stack[k].to)
                  took  == Len(adhocComments) - Len(adhocComments')
                  blank == BlankDue(stack[k].items, stack[k].i)
              IN  /\ NewlinesIn(after) = NewlinesIn(b) + took + blank
                  /\ blank = 1 => after[Len(after)].t = "newline"
                  /\ (blank = 0 /\ took = 0 /\ Len(after) > 0) =>
                        after[Len(after)].t # "newline"]_vars

\* the walk is past an argument with a line comment and past a block of
\* several lines, each followed by a blank line in the source, and past a
\* last item
C19_Witness ==
    /\ Upgraded
    /\ Len(oldF.Node) = 3
    /\ oldF.Node[1].LineComment # NoGroup
    /\ oldF.Node[1].Val.Rbrace.Line > oldF.Node[1].pos.Line
    /\ BlankDue(oldF.Node, 1) = 1
    /\ BlankDue(oldF.Node, 2) = 1
    /\ BlankDue(oldF.Node[2].Val.Items, 1) = 0
    /\ NewlinesIn(newF) = 2

(***************************************************************************)
(* C20: upgradeExpressionConstant maps a string literal to a string value, *)
(* an integer literal to an integer-valued number, a float literal to a    *)
(* float-valued number, a boolean literal to a boolean, and a list to a    *)
(* tuple with as many elements as the list, the i-th being the conversion  *)
(* of the i-th element of the list, of whatever type.                      *)
(***************************************************************************)
RECURSIVE ValuesBelowAll(_)
RECURSIVE ValuesBelow(_)
ValuesBelowAll(nodes) ==
    IF nodes = << >> THEN {}
    ELSE ValuesBelow(Head(nodes)) \cup ValuesBelowAll(Tail(nodes))

\* the literals and lists at and below a node
ValuesBelow(n) ==
    CASE n.node = "Item" -> ValuesBelow(n.Val)
      [] n.node = "Object" -> ValuesBelowAll(n.Items)
      [] n.node = "List" -> {n} \cup ValuesBelowAll(n.List)
      [] n.node = "Literal" -> {n}

MapsAsStated(v) ==
    LET r == upgradeExpressionConstant(v)
    IN  CASE v.node = "List" ->
               /\ r.ok
               /\ r.val.ty = "tuple"
               /\ Len(r.val.elems) = Len(v.List)
               /\ \A j \in 1..Len(v.List) :
                     upgradeExpressionConstant(v.List[j]) = Ok(r.val.elems[j])
          [] v.type \in {"string", "heredoc"} ->
               r.ok /\ r.val = [ty |-> "string", s |-> v.text]
          [] v.type = "number" ->
               r.ok /\ r.val = [ty |-> "number", n |-> v.text, int |-> TRUE]
          [] v.type = "float" ->
               r.ok /\ r.val = [ty |-> "number", n |-> v.text, int |-> FALSE]
          [] v.type = "bool" ->
               r.ok /\ r.val = [ty |-> "bool", b |-> v.text]

C20_ConstantsMapped ==
    Parsed => \A v \in ValuesBelowAll(oldF.Node) : MapsAsStated(v)

(***************************************************************************)
(* Vocabulary of the properties of LoadConfig.                             *)
(***************************************************************************)
Returned == lpc = "done"

\* a file LoadConfig can load: it exists under a configuration file name, a
\* parser accepts it and its hostnames are valid
IsLoadable(file) ==
    /\ file.syntax \in {"both", "legacy"}
    /\ file.dir # "" => configFileFormat(file.name) # invalidFormat
    /\ \A j \in 1..Len(file.decl.Hosts) :
          ForComparison(file.decl.Hosts[j].host).ok
    /\ \A j \in 1..Len(file.decl.Credentials) :
          ForComparison(file.decl.Credentials[j].host).ok

LoadableSources == {i \in 1..Len(sources) : IsLoadable(sources[i])}

\* no file after file i sets the same name
LastProvider(i, k) ==
    \A j \in LoadableSources : j > i => k \notin DOMAIN sources[j].decl.Providers
LastProvisioner(i, k) ==
    \A j \in LoadableSources :
       j > i => k \notin DOMAIN sources[j].decl.Provisioners

\* the blocks of one kind in the loadable files, as <<file, block>>
HostBlocks ==
    {ij \in LoadableSources \X (1..2) :
        ij[2] <= Len(sources[ij[1]].decl.Hosts)}
CredentialsBlocks ==
    {ij \in LoadableSources \X (1..2) :
        ij[2] <= Len(sources[ij[1]].decl.Credentials)}
HelperBlocks ==
    {ij \in LoadableSources \X (1..2) :
        ij[2] <= Len(sources[ij[1]].decl.CredentialsHelpers)}

HostOf(block) == ForComparison(block.host).host

\* the only credentials block for its host
OnlyCredentials(ij) ==
    \A xy \in CredentialsBlocks :
       HostOf(sources[xy[1]].decl.Credentials[xy[2]])
         = HostOf(sources[ij[1]].decl.Credentials[ij[2]]) => xy = ij

OnlyHost(ij) ==
    \A xy \in HostBlocks :
       HostOf(sources[xy[1]].decl.Hosts[xy[2]])
         = HostOf(sources[ij[1]].decl.Hosts[ij[2]]) => xy = ij

\* a string without a reference to the environment
RefFree(v) == \A j \in 1..Len(v) : v[j] # "$"

(***************************************************************************)
(* C12: every construct declared in a loadable file is in the Config that  *)
(* LoadConfig returns: every providers and provisioners entry as an        *)
(* override with Name the key and Path the value, every host block with    *)
(* its services, every credentials block with all of its keys, and the     *)
(* credentials helper with its type and arguments.                         *)
(***************************************************************************)
C12_DeclaredConstructsLoaded ==
    Returned =>
      /\ \A i \in LoadableSources :
            /\ \A k \in DOMAIN sources[i].decl.Providers :
                  LastProvider(i, k) =>
                    /\ k \in DOMAIN cfg.Providers
                    /\ cfg.Providers[k].Name = k
                    /\ RefFree(sources[i].decl.Providers[k]) =>
                          cfg.Providers[k].Path = sources[i].decl.Providers[k]
            /\ \A k \in DOMAIN sources[i].decl.Provisioners :
                  LastProvisioner(i, k) =>
                    /\ k \in DOMAIN cfg.Provisioners
                    /\ cfg.Provisioners[k].Name = k
      /\ \A ij \in HostBlocks :
            LET block == sources[ij[1]].decl.Hosts[ij[2]]
            IN  OnlyHost(ij) =>
                  /\ HostOf(block) \in DOMAIN cfg.Hosts
                  /\ cfg.Hosts[HostOf(block)].Services = block.services
      /\ \A ij \in CredentialsBlocks :
            LET block == sources[ij[1]].decl.Credentials[ij[2]]
            IN  OnlyCredentials(ij) =>
                  /\ HostOf(block) \in DOMAIN cfg.Credentials
                  /\ DOMAIN cfg.Credentials[HostOf(block)].Raw
                       = DOMAIN block.raw
      /\ \A ij \in HelperBlocks :
            Cardinality(HelperBlocks) = 1 =>
               cfg.CredentialsHelper
                 = sources[ij[1]].decl.CredentialsHelpers[ij[2]]

(***************************************************************************)
(* C13: LoadConfig replaces the references to environment variables in the *)
(* values of the providers and provisioners maps and of plugin_cache_dir   *)
(* by the values the environment gives them, leaves values without         *)
(* references as they are, and expands nothing in any other setting.       *)
(***************************************************************************)
\* the only loadable file that sets plugin_cache_dir, with no override from
\* the environment
OnlyCacheDir(i) ==
    /\ sources[i].decl.PluginCacheDir # << >>
    /\ \A j \in LoadableSources :
          sources[j].decl.PluginCacheDir # << >> => j = i
    /\ getEnv(environ, pluginCacheDirEnvVar) = << >>

C13_ExpansionWhereHistorical ==
    Returned =>
      /\ \A i \in LoadableSources :
            /\ \A k \in DOMAIN sources[i].decl.Providers :
                  LastProvider(i, k) =>
                    /\ k \in DOMAIN cfg.Providers
                    /\ cfg.Providers[k].Path
                         = Expand(sources[i].decl.Providers[k], environ)
            /\ \A k \in DOMAIN sources[i].decl.Provisioners :
                  LastProvisioner(i, k) =>
                    /\ k \in DOMAIN cfg.Provisioners
                    /\ cfg.Provisioners[k].Path
                         = Expand(sources[i].decl.Provisioners[k], environ)
            /\ OnlyCacheDir(i) =>
                  cfg.PluginCacheDir
                    = Expand(sources[i].decl.PluginCacheDir, environ)
      /\ \A ij \in CredentialsBlocks :
            LET block == sources[ij[1]].decl.Credentials[ij[2]]
            IN  (OnlyCredentials(ij) /\ HostOf(block) \in DOMAIN cfg.Credentials)
                  => \A k \in DOMAIN cfg.Credentials[HostOf(block)].Raw :
                        k \in DOMAIN block.raw =>
                           cfg.Credentials[HostOf(block)].Raw[k] = block.raw[k]

(***************************************************************************)
(* C21: upgradeExpressionConstant maps a nested object to a key/value      *)
(* mapping with one entry per distinct item name; for a name defined       *)
(* several times the value of the last definition in source order is the   *)
(* one kept.                                                               *)
(***************************************************************************)
RECURSIVE ObjectsBelowAll(_)
RECURSIVE ObjectsBelow(_)
ObjectsBelowAll(nodes) ==
    IF nodes = << >> THEN {}
    ELSE ObjectsBelow(Head(nodes)) \cup ObjectsBelowAll(Tail(nodes))

\* the object nodes at and below a node
ObjectsBelow(n) ==
    CASE n.node = "Item" -> ObjectsBelow(n.Val)
      [] n.node = "Object" -> {n} \cup ObjectsBelowAll(n.Items)
      [] n.node = "List" -> ObjectsBelowAll(n.List)
      [] n.node = "Literal" -> {}

\* the first key of every item of an object
ItemNames(o) == {o.Items[j].Keys[1] : j \in 1..Len(o.Items)}

\* the position in the object of the last item of a name
LastDefinition(o, name) ==
    CHOOSE j \in 1..Len(o.Items) :
       /\ o.Items[j].Keys[1] = name
       /\ \A m \in (j + 1)..Len(o.Items) : o.Items[m].Keys[1] # name

\* every value written in the object can be converted
Convertible(o) ==
    \A j \in 1..Len(o.Items) : upgradeExpressionConstant(o.Items[j].Val).ok

HasRepeatedName(o) ==
    \E i, j \in 1..Len(o.Items) : i < j /\ o.Items[i].Keys[1] = o.Items[j].Keys[1]

ObjectMapsLastWins(o) ==
    LET r == upgradeExpressionConstant(o)
    IN  Convertible(o) =>
          /\ r.ok
          /\ r.val.ty = "object"
          /\ DOMAIN r.val.attrs = ItemNames(o)
          /\ \A name \in ItemNames(o) :
                Ok(r.val.attrs[name]) =
                  upgradeExpressionConstant(o.Items[LastDefinition(o, name)].Val)

C21_ObjectLastDefinitionKept ==
    Parsed => \A o \in ObjectsBelowAll(oldF.Node) : ObjectMapsLastWins(o)

\* reached: an object that defines a name twice with different values was
\* converted and written as the value of an attribute
C21_Witness ==
    /\ Upgraded
    /\ \E o \in ObjectsBelowAll(oldF.Node) :
          /\ Convertible(o)
          /\ \E i, j \in 1..Len(o.Items) :
                /\ i < j
                /\ o.Items[i].Keys[1] = o.Items[j].Keys[1]
                /\ upgradeExpressionConstant(o.Items[i].Val)
                     # upgradeExpressionConstant(o.Items[j].Val)
          /\ \E e \in 1..Len(newF) :
                /\ newF[e].t = "attr"
                /\ Ok(newF[e].val) = upgradeExpressionConstant(o)

(***************************************************************************)
(* C22: internal invariant violations are unreachable.  For every          *)
(* parseable input the only fatal condition the upgrade reaches is the     *)
(* unsupported substitution-eligible path; the converter is only invoked   *)
(* on literal, list or object nodes; and an input with no root item named  *)
(* providers, provisioners or plugin_cache_dir never aborts.               *)
(***************************************************************************)
NoEligibleRootItem ==
    \A j \in 1..Len(oldF.Node) : oldF.Node[j].Keys[1] \notin ExpandEnvNames

C22_OnlyUnsupportedPathFatal ==
    Parsed =>
      /\ pc = "panic" => panicMsg = ExpandEnvMsg
      /\ NoEligibleRootItem => pc # "panic"

(***************************************************************************)
(* C23: the upgrade is a single deterministic left-to-right, depth-first   *)
(* walk.  The items of a list are processed in document order, the whole   *)
(* contents of a nested block are emitted before anything that belongs to  *)
(* a later sibling, and the same input gives the same sequence of writer   *)
(* operations and the same bytes: in every state at most one step is       *)
(* possible.                                                               *)
(***************************************************************************)
\* the new file changes in the body at the path only
WritesOnlyAt(path) == newF' = ReplaceAt(newF, path, BodyAt(newF', path))

\* what the body had is kept where it was; an attribute may get a new value
KeepsEarlier(was, now) ==
    /\ Len(now) >= Len(was)
    /\ \A e \in 1..Len(was) :
          \/ now[e] = was[e]
          \/ /\ was[e].t = "attr"
             /\ now[e].t = "attr"
             /\ now[e].name = was[e].name

\* the attributes and blocks a step writes carry the name of the item the
\* loop is at
WritesCurrentItem(was, now) ==
    \A e \in 1..Len(now) :
       (now[e].t \in {"attr", "block"} /\ (e > Len(was) \/ now[e] # was[e]))
          => now[e].name = KeyName(CurItem)

\* the loops advance one item at a time, an inner loop starts at the first
\* item of the block the outer loop is at and ends before the outer loop
\* goes on
DepthFirstStep ==
    pc = "upgradeBody" =>
      LET n == Len(stack)
      IN  CASE Len(stack') = n + 1 ->
                 /\ AtItem
                 /\ SubSeq(stack', 1, n) = stack
                 /\ stack'[n + 1].i = 1
                 /\ stack'[n + 1].items = CurItem.Val.Items
                 /\ WritesOnlyAt(Top.to)
                 /\ KeepsEarlier(BodyAt(newF, Top.to), BodyAt(newF', Top.to))
                 /\ WritesCurrentItem(BodyAt(newF, Top.to),
                                      BodyAt(newF', Top.to))
                 /\ BodyAt(newF', stack'[n + 1].to) = << >>
            [] Len(stack') = n /\ stack' # stack ->
                 /\ AtItem
                 /\ stack' = [stack EXCEPT ![n].i = @ + 1]
                 /\ WritesOnlyAt(Top.to)
                 /\ KeepsEarlier(BodyAt(newF, Top.to), BodyAt(newF', Top.to))
                 /\ WritesCurrentItem(BodyAt(newF, Top.to),
                                      BodyAt(newF', Top.to))
            [] Len(stack') = n - 1 ->
                 /\ Top.i = Len(Top.items) + 1
                 /\ stack' = [SubSeq(stack, 1, n - 1)
                                 EXCEPT ![n - 1].i = @ + 1]
                 /\ WritesOnlyAt(stack[n - 1].to)
                 /\ KeepsEarlier(BodyAt(newF, stack[n - 1].to),
                                 BodyAt(newF', stack[n - 1].to))
            [] stack' = stack ->
                 \/ /\ pc' = "done"
                    /\ n = 1
                    /\ Top.i = Len(Top.items) + 1
                    /\ newF' = newF
                    /\ ret'.bytes = Bytes(newF)
                 \/ /\ pc' = "panic"
                    /\ AtItem
                    /\ WritesOnlyAt(Top.to)
                    /\ KeepsEarlier(BodyAt(newF, Top.to),
                                    BodyAt(newF', Top.to))
            [] OTHER -> FALSE

\* a walk starts at the first root item with an empty new file
StartsAtFirstItem ==
    (pc = "start" /\ pc' = "upgradeBody") =>
       /\ newF' = << >>
       /\ Len(stack') = 1
       /\ stack'[1].i = 1
       /\ stack'[1].items = oldF'.Node

\* the number of steps of the program that can be taken (Begin can be taken
\* exactly when the parse succeeds: what follows its two conditions assigns)
StepsEnabled ==
    LET en == <<ENABLED ParseError, pc = "start" /\ ~old.err,
                ENABLED ItemExpandEnv,
                ENABLED ItemBlock, ENABLED ItemArgument, ENABLED EndBlock,
                ENABLED Finish>>
    IN  Cardinality({j \in 1..Len(en) : en[j]})

C23_SingleDepthFirstWalk ==
    /\ [](StepsEnabled <= 1)
    /\ [][DepthFirstStep /\ StartsAtFirstItem]_vars

\* reached: a block with contents was written and closed, and a later
\* sibling was written after it
C23_Witness ==
    /\ Upgraded
    /\ \E e \in 1..Len(newF) :
          /\ newF[e].t = "block"
          /\ \E m \in 1..Len(newF[e].body) : newF[e].body[m].t = "attr"
          /\ \E m \in (e + 1)..Len(newF) : newF[m].t \in {"attr", "block"}

(***************************************************************************)
(* C24: the fallback protocol of loadConfigFile.  If the new loader        *)
(* reports no errors its result is returned; if it reports errors and the  *)
(* legacy loader fails too, no file is returned, with the new loader's     *)
(* diagnostics; if it reports errors and the legacy loader succeeds, the   *)
(* legacy result is returned with one warning for each diagnostic of the   *)
(* new loader, an error downgraded to a warning that carries the notice    *)
(* that it will become a fatal error.                                      *)
(***************************************************************************)
\* LoadConfig receives what loadConfigFile returns for the file it is at
LoadsFile == Loadable /\ fileNo' = fileNo + 1

\* the diagnostics the step has added
AddedDiags == SubSeq(diags', Len(diags) + 1, Len(diags'))

\* one warning for each diagnostic
WarningsFor(ds) == [j \in 1..Len(ds) |-> WarningDiag(ds[j])]

FallbackProtocol ==
    LET new == loadConfigFileHCL(CurFile, environ)
        old_ == loadConfigFileLegacyHCL(CurFile, environ)
    IN  IF ~HasErrors(new.diags)
        THEN /\ allFiles' = Append(allFiles, new.f)
             /\ AddedDiags = new.diags
        ELSE IF \A l \in old_ : HasErrors(l.diags)
        THEN /\ allFiles' = allFiles
             /\ AddedDiags = new.diags
        ELSE \E l \in old_ :
                /\ ~HasErrors(l.diags)
                /\ allFiles' = Append(allFiles, l.f)
                /\ AddedDiags = l.diags \o WarningsFor(new.diags)

C24_FallbackProtocol == [][LoadsFile => FallbackProtocol]_vars

(***************************************************************************)
(* C25: when the file name matches neither *.tfrc nor *.tfrc.json,         *)
(* loadConfigFileHCL reports an "Unsupported CLI config format" error and  *)
(* returns without parsing or decoding anything: it never goes on to read  *)
(* the body of a file that was not parsed, so the load of such a file      *)
(* never dies on it.                                                       *)
(***************************************************************************)
UnsupportedFormat(file) == configFileFormat(FileName(file)) = invalidFormat

C25_UnsupportedFormatReturns ==
    \A j \in 1..Len(sources) :
       (UnsupportedFormat(sources[j]) /\ fileNo = j) => lpc # "panic"

(***************************************************************************)
(* C26: after mergeFiles over any sequence of files at most one            *)
(* credentials helper is selected, the first helper of the first file      *)
(* that declares one; every later file that declares a helper adds a       *)
(* "Multiple credentials_helper blocks" error and leaves the selection     *)
(* unchanged, and a file that declares more than one helper adds an error. *)
(***************************************************************************)
\* the files given to mergeFiles that declare a helper
Declaring == {j \in 1..Len(allFiles) : Len(allFiles[j].CredentialsHelpers) # 0}

\* the files given to mergeFiles that declare more than one
DeclaringSeveral ==
    {j \in 1..Len(allFiles) : Len(allFiles[j].CredentialsHelpers) > 1}

MultipleHelperErrors ==
    Cardinality({j \in 1..Len(diags) :
                   diags[j] = ErrorDiag("Multiple credentials_helper blocks")})

C26_FirstHelperSelected ==
    Returned =>
      /\ Declaring = {} => cfg.CredentialsHelper = NoHelper
      /\ Declaring # {} =>
            LET first == CHOOSE j \in Declaring : \A m \in Declaring : j <= m
            IN  cfg.CredentialsHelper = allFiles[first].CredentialsHelpers[1]
      /\ MultipleHelperErrors =
            Cardinality(DeclaringSeveral)
              + (IF Declaring = {} THEN 0 ELSE Cardinality(Declaring) - 1)

\* reached: two files declare helpers, the later one several of them and
\* another first helper than the earlier file, whose helper is selected
C26_Witness ==
    /\ Returned
    /\ \E i, j \in Declaring :
          /\ i < j
          /\ j \in DeclaringSeveral
          /\ allFiles[i].CredentialsHelpers[1] # allFiles[j].CredentialsHelpers[1]
          /\ cfg.CredentialsHelper = allFiles[i].CredentialsHelpers[1]
    /\ MultipleHelperErrors = 2

(***************************************************************************)
(* C27: mergeFiles gives later files precedence.  For providers,           *)
(* provisioners, hosts and credentials, keyed by name or host name, the    *)
(* entry of the last file that defines the key is the one in the result,   *)
(* and keys defined only in earlier files are kept; PluginCacheDir is that *)
(* of the last file with a non-empty value, the environment being merged   *)
(* last so that TF_PLUGIN_CACHE_DIR overrides every file; and              *)
(* DisableCheckpoint and DisableCheckpointSignature, once set by a file,   *)
(* are not reset by a later one.                                           *)
(***************************************************************************)
LastOf(S) == CHOOSE j \in S : \A m \in S : m <= j

MergedFiles == 1..Len(allFiles)

\* overrides keyed by Name: the entry of the last file that has the name
OverridesLastWins(merged, field(_)) ==
    /\ DOMAIN merged = {o.Name : o \in UNION {field(allFiles[j]) : j \in MergedFiles}}
    /\ \A n \in DOMAIN merged :
          LET j == LastOf({m \in MergedFiles :
                             \E o \in field(allFiles[m]) : o.Name = n})
          IN  merged[n] \in field(allFiles[j])

\* blocks keyed by Host: the last entry of the last file that has the host
BlocksLastWin(merged, field(_)) ==
    /\ DOMAIN merged =
          UNION {{field(allFiles[j])[k].Host : k \in 1..Len(field(allFiles[j]))} :
                    j \in MergedFiles}
    /\ \A h \in DOMAIN merged :
          LET j == LastOf({m \in MergedFiles :
                             \E k \in 1..Len(field(allFiles[m])) :
                                field(allFiles[m])[k].Host = h})
              k == LastOf({m \in 1..Len(field(allFiles[j])) :
                             field(allFiles[j])[m].Host = h})
          IN  merged[h] = field(allFiles[j])[k]

ProvidersOf(f) == f.Providers
ProvisionersOf(f) == f.Provisioners
HostsOf(f) == f.Hosts
CredentialsOf(f) == f.Credentials

WithCacheDir == {j \in MergedFiles : allFiles[j].PluginCacheDir # << >>}

C27_LaterFilesWin ==
    Returned =>
      /\ OverridesLastWins(cfg.Providers, ProvidersOf)
      /\ OverridesLastWins(cfg.Provisioners, ProvisionersOf)
      /\ BlocksLastWin(cfg.Hosts, HostsOf)
      /\ BlocksLastWin(cfg.Credentials, CredentialsOf)
      /\ cfg.PluginCacheDir =
            IF WithCacheDir = {} THEN << >>
            ELSE allFiles[LastOf(WithCacheDir)].PluginCacheDir
      /\ allFiles[Len(allFiles)] = environConfig(environ)
      /\ getEnv(environ, pluginCacheDirEnvVar) # << >> =>
            cfg.PluginCacheDir = getEnv(environ, pluginCacheDirEnvVar)
      /\ cfg.DisableCheckpoint =
            \E j \in MergedFiles : allFiles[j].DisableCheckpoint
      /\ cfg.DisableCheckpointSignature =
            \E j \in MergedFiles : allFiles[j].DisableCheckpointSignature

\* reached: two files give one provider different paths and the result has
\* the later one, a provider only the earlier file has is kept, and the
\* cache directory is the one of the environment
C27_Witness ==
    /\ Returned
    /\ \E i, j \in MergedFiles :
          /\ i < j
          /\ \E a \in allFiles[i].Providers, b \in allFiles[j].Providers :
                /\ a.Name = b.Name
                /\ a.Path # b.Path
                /\ cfg.Providers[a.Name] = b
          /\ \E a \in allFiles[i].Providers :
                /\ \A b \in allFiles[j].Providers : b.Name # a.Name
                /\ cfg.Providers[a.Name] = a
    /\ cfg.PluginCacheDir = <<"d">>

(***************************************************************************)
(* C28: the two views of the environment agree.  For every environ list    *)
(* and every variable name, the value getEnv returns (the legacy loader's  *)
(* expansion) equals the value environForHCL maps the name to (the new     *)
(* loader's evaluation context), an absent name reading as empty or        *)
(* undefined in both; also when environ has the same name more than once.  *)
(***************************************************************************)
\* the names the files refer to and the names the entries of environ carry
EnvNames ==
    {<<"T">>, <<"T", "F">>, <<"F">>, <<"U">>, pluginCacheDirEnvVar}
      \cup DOMAIN environForHCL(environ)

\* the value of a name in the evaluation context, empty when undefined
ValueForHCL(name) ==
    IF name \in DOMAIN environForHCL(environ)
    THEN environForHCL(environ)[name]
    ELSE << >>

C28_EnvironViewsAgree ==
    lpc # "off" =>
       \A name \in EnvNames : getEnv(environ, name) = ValueForHCL(name)
====
